---- MODULE Spec2Model ----
(***************************************************************************)
(* Temporium binary snapshot format: the writer (writeGamesToFile), the    *)
(* verifier (verifyBinaryFile), the importer (importFromBinaryFile) and    *)
(* the preview reader (readBinaryFile) of DatabaseManager, with the        *)
(* on-disk structures of types.h and the digest of HashUtils.              *)
(*                                                                         *)
(* A file is a sequence of bytes (0..255) with the true sizes of the       *)
(* packed structures (#pragma pack(1)): a 100-byte BinaryFileHeader and    *)
(* 2151-byte BinaryGameRecords.  Integers are little-endian two's          *)
(* complement (the byte order of the producing machine), a double is its   *)
(* 8-byte object representation, a std::string is a sequence of bytes.     *)
(***************************************************************************)
EXTENDS Integers, Sequences, FiniteSets, TLC

VARIABLES
    fs,            \* the file at the path: [exists, bytes]
    oracle,        \* the non-empty byte strings whose digest a file at the path holds
    last_error_,   \* DatabaseManager::last_error_
    games_table,   \* the rows of the store's games table, in insertion order
    ret,           \* the last call: [op, ok, result, games, owner, escaped, more, signal]
    open_streams,  \* file streams still open after the last call returned
    origin,        \* how the file at the path came to be
    nverify,       \* consecutive verifyBinaryFile calls since the file last changed
    inflight,      \* the call on the path that has started and not yet returned
    users_table    \* the rows of the store's users table, in insertion order

vars == <<fs, oracle, last_error_, games_table, ret, open_streams, origin, nverify,
          inflight, users_table>>

(***************************************************************************)
(* Bounds of the model.                                                    *)
(***************************************************************************)
MaxGames == 2        \* longest record list handed to the writer
MaxInserts == 3      \* INSERTs into the games table after which imports stop
MaxAlloc == 4        \* records a vector can hold; a longer one may throw std::bad_alloc
MaxDecode == 4       \* iterations of a decode loop that are followed
MaxVerifyCalls == 2  \* consecutive verifications that are counted
MaxUsers == 2        \* INSERTs into the users table after which registration stops

(***************************************************************************)
(* Program constants.                                                      *)
(***************************************************************************)
FILE_MAGIC == 1413827920             \* 0x54454D50
FILE_VERSION == 3
LEGACY_VERSION == 1
SIZEOF_HASH == 64                    \* char hash[64]
SIZEOF_RESERVED == 26                \* uint8_t reserved[26]
SIZEOF_NAME == 256                   \* char name[256]
SIZEOF_GENRE == 64                   \* char genre[64]
SIZEOF_URL == 512                    \* char url[512]
SIZEOF_NOTES == 1024                 \* char notes[1024]
SIZEOF_TAGS == 256                   \* char tags[256]
SHA256_DIGEST_LENGTH == 32

(***************************************************************************)
(* Bytes, integers and C strings.                                          *)
(***************************************************************************)
Byte == 0..255

Min(a, b) == IF a <= b THEN a ELSE b

\* F applied to the value of x, x being evaluated once
Let(x, F(_)) == CHOOSE y \in {F(v) : v \in {x}} : TRUE

Zeros(n) == [i \in 1..n |-> 0]

\* int32_t / uint32_t (below 2^31) as 4 little-endian bytes
Le32(v) ==
    << v % 256, (v \div 256) % 256, (v \div 65536) % 256, (v \div 16777216) % 256 >>

\* uint16_t as 2 little-endian bytes
Le16(v) == << v % 256, (v \div 256) % 256 >>

\* 4 little-endian bytes read as int32_t
Int32Of(b) ==
    b[1] + 256 * b[2] + 65536 * b[3]
      + 16777216 * (IF b[4] >= 128 THEN b[4] - 256 ELSE b[4])

\* 2 little-endian bytes read as uint16_t
Uint16Of(b) == b[1] + 256 * b[2]

\* index of the first zero byte of mem in lo..hi, hi + 1 if there is none
RECURSIVE FirstZero(_, _, _)
FirstZero(mem, lo, hi) ==
    IF lo > hi THEN lo
    ELSE IF lo = hi THEN (IF mem[lo] = 0 THEN lo ELSE lo + 1)
    ELSE LET mid == (lo + hi) \div 2
             l == FirstZero(mem, lo, mid)
         IN  IF l <= mid THEN l ELSE FirstZero(mem, mid + 1, hi)

\* std::string::c_str(): the characters followed by a terminating zero
c_str(s) == s \o <<0>>

\* strlen of the C string that starts at mem[off]
strlen(mem, off) == FirstZero(mem, off, Len(mem)) - off

\* std::string(const char*): the bytes from mem[off] up to the first zero byte
StdString(mem, off) == SubSeq(mem, off, off + strlen(mem, off) - 1)

\* strncpy(dst, src, n): n bytes are written, the characters of src up to its
\* terminator and zeros after them; dst beyond n is left alone
strncpy(dst, src, n) ==
    LET l == Min(strlen(src, 1), n)
    IN  SubSeq(src, 1, l) \o Zeros(n - l) \o SubSeq(dst, n + 1, Len(dst))

\* a uint32_t field compared with a small number: min(value, k), for k < 2^31
Uint32Min(b, k) == IF b[4] >= 128 THEN k ELSE Min(Int32Of(b), k)

(***************************************************************************)
(* HashUtils.  SHA-256 itself is the library's: it is modelled as a        *)
(* collision-free function, the digest of the empty string being the       *)
(* well-known one and every other input getting the digest numbered by     *)
(* its place among the inputs whose digest was issued (a random oracle);   *)
(* an input without an issued digest gets a digest equal to none of them.  *)
(***************************************************************************)
EMPTY_DIGEST ==
    << 227, 176, 196, 66, 152, 252, 28, 20, 154, 251, 244, 200, 153, 111, 185, 36,
       39, 174, 65, 228, 100, 155, 147, 76, 164, 149, 153, 27, 120, 82, 184, 85 >>

OracleIndex(o, msg) ==
    IF \E i \in 1..Len(o) : o[i] = msg
    THEN CHOOSE i \in 1..Len(o) : o[i] = msg
    ELSE Len(o) + 1

\* the oracle after it was asked about msg
Learn(o, msg) ==
    IF msg = <<>> \/ (\E i \in 1..Len(o) : o[i] = msg) THEN o ELSE Append(o, msg)

\* SHA256_Init, SHA256_Update over msg, SHA256_Final: SHA256_DIGEST_LENGTH bytes
SHA256_Final(o, msg) ==
    IF msg = <<>> THEN EMPTY_DIGEST
    ELSE LET n == OracleIndex(o, msg)
         IN  Zeros(SHA256_DIGEST_LENGTH - 2) \o << (n \div 256) % 256, n % 256 >>

\* one digit of std::hex output, as its ASCII code
HexDigit(d) == IF d < 10 THEN 48 + d ELSE 87 + d

\* ss << std::hex << std::setw(2) << std::setfill('0') << int(data[i])
HexOfByte(b) == << HexDigit(b \div 16), HexDigit(b % 16) >>

bytesToHex(data, length) ==
    [i \in 1..(2 * length) |-> HexOfByte(data[(i + 1) \div 2])[2 - (i % 2)]]

\* a variant of Sha256Input that leaves out the last byte
Sha256Input_Short(data, length) ==
    IF length > 1 THEN SubSeq(data, 1, length - 1) ELSE <<>>

\* what SHA256_Update is fed: length bytes of data, nothing when length is 0
Sha256Input(data, length) == IF length > 0 THEN SubSeq(data, 1, length) ELSE <<>>

\* HashUtils::sha256(const char* data, size_t length); data = <<>> with
\* length 0 is the call sha256("", 0)
sha256(o, data, length) ==
    bytesToHex(SHA256_Final(o, Sha256Input(data, length)), SHA256_DIGEST_LENGTH)

(***************************************************************************)
(* The on-disk structures of types.h, packed.                              *)
(***************************************************************************)
SizeofHeader == 4 + 2 + 4 + SIZEOF_HASH + SIZEOF_RESERVED

\* offsets (1-based) of the fields of BinaryFileHeader
OffVersion == 5
OffRecordCount == 7
OffHash == 11
OffReserved == OffHash + SIZEOF_HASH

\* offsets (1-based) of the fields of BinaryGameRecord
OffId == 1
OffName == OffId + 4
OffDiskSpace == OffName + SIZEOF_NAME
OffRamUsage == OffDiskSpace + 8
OffVramRequired == OffRamUsage + 8
OffGenre == OffVramRequired + 8
OffCompleted == OffGenre + SIZEOF_GENRE
OffUrl == OffCompleted + 1
OffUserId == OffUrl + SIZEOF_URL
OffRating == OffUserId + 4
OffIsFavorite == OffRating + 4
OffIsInstalled == OffIsFavorite + 1
OffNotes == OffIsInstalled + 1
OffTags == OffNotes + SIZEOF_NOTES
SizeofRecord == OffTags + SIZEOF_TAGS - 1

\* the object representation of a BinaryFileHeader, magic and record_count
\* given as their 4 bytes
RawHeader(magic4, version, count4, hash, reserved) ==
    magic4 \o Le16(version) \o count4 \o hash \o reserved

HeaderBytes(magic, version, record_count, hash, reserved) ==
    RawHeader(Le32(magic), version, Le32(record_count), hash, reserved)

\* BinaryFileHeader(): current magic and version, no records, hash and
\* reserved zeroed
BinaryFileHeader ==
    HeaderBytes(FILE_MAGIC, FILE_VERSION, 0, Zeros(SIZEOF_HASH), Zeros(SIZEOF_RESERVED))

\* BinaryGameRecord(): everything zero except rating = -1
BinaryGameRecord ==
    Le32(0) \o Zeros(SIZEOF_NAME) \o Zeros(24) \o Zeros(SIZEOF_GENRE) \o <<0>>
      \o Zeros(SIZEOF_URL) \o Le32(0) \o Le32(-1) \o <<0, 0>>
      \o Zeros(SIZEOF_NOTES) \o Zeros(SIZEOF_TAGS)

\* Game(): the defaults of a domain record
Game ==
    [id |-> 0, name |-> <<>>, disk_space |-> Zeros(8), ram_usage |-> Zeros(8),
     vram_required |-> Zeros(8), genre |-> <<>>, completed |-> FALSE, url |-> <<>>,
     user_id |-> 0, rating |-> -1, is_favorite |-> FALSE, is_installed |-> FALSE,
     notes |-> <<>>, tags |-> <<>>]

BoolByte(b) == IF b THEN 1 ELSE 0

\* a variant of EncodeRecord that copies sizeof(field) bytes, not sizeof(field) - 1
EncodeRecord_Full(game) ==
    Le32(game.id)
      \o strncpy(Zeros(SIZEOF_NAME), c_str(game.name), SIZEOF_NAME)
      \o game.disk_space \o game.ram_usage \o game.vram_required
      \o strncpy(Zeros(SIZEOF_GENRE), c_str(game.genre), SIZEOF_GENRE)
      \o << BoolByte(game.completed) >>
      \o strncpy(Zeros(SIZEOF_URL), c_str(game.url), SIZEOF_URL)
      \o Le32(game.user_id)
      \o Le32(game.rating)
      \o << BoolByte(game.is_favorite), BoolByte(game.is_installed) >>
      \o strncpy(Zeros(SIZEOF_NOTES), c_str(game.notes), SIZEOF_NOTES)
      \o strncpy(Zeros(SIZEOF_TAGS), c_str(game.tags), SIZEOF_TAGS)

\* the body of the writer's loop: one Game encoded into a zeroed record
EncodeRecord(game) ==
    Le32(game.id)
      \o strncpy(Zeros(SIZEOF_NAME), c_str(game.name), SIZEOF_NAME - 1)
      \o game.disk_space \o game.ram_usage \o game.vram_required
      \o strncpy(Zeros(SIZEOF_GENRE), c_str(game.genre), SIZEOF_GENRE - 1)
      \o << BoolByte(game.completed) >>
      \o strncpy(Zeros(SIZEOF_URL), c_str(game.url), SIZEOF_URL - 1)
      \o Le32(game.user_id)
      \o Le32(game.rating)
      \o << BoolByte(game.is_favorite), BoolByte(game.is_installed) >>
      \o strncpy(Zeros(SIZEOF_NOTES), c_str(game.notes), SIZEOF_NOTES - 1)
      \o strncpy(Zeros(SIZEOF_TAGS), c_str(game.tags), SIZEOF_TAGS - 1)

(***************************************************************************)
(* Input records.  Text comes from the store (name VARCHAR(255), genre     *)
(* VARCHAR(64), url VARCHAR(512), notes TEXT, tags VARCHAR(512), lengths   *)
(* in characters) and holds no zero byte.  Fill(n) is n bytes              *)
(* "ABC...ZABC...", Wide(n) the first n bytes of UTF-8 text of two-byte    *)
(* Cyrillic letters.                                                       *)
(***************************************************************************)
Fill(n) == [i \in 1..n |-> 65 + ((i - 1) % 26)]

Wide(n) == [i \in 1..n |-> IF i % 2 = 1 THEN 208 ELSE 144 + (((i \div 2) - 1) % 32)]

\* the doubles 0.5, 1.5 and 48.0
Dbl05 == <<0, 0, 0, 0, 0, 0, 224, 63>>
Dbl15 == <<0, 0, 0, 0, 0, 0, 248, 63>>
Dbl48 == <<0, 0, 0, 0, 0, 0, 72, 64>>

\* a short record, unrated
GameA ==
    [id |-> 1, name |-> <<68, 111, 111, 109>>, disk_space |-> Dbl15, ram_usage |-> Dbl05,
     vram_required |-> Dbl48, genre |-> <<82, 80, 71>>, completed |-> TRUE,
     url |-> <<104, 116, 116, 112>>, user_id |-> 1, rating |-> -1, is_favorite |-> TRUE,
     is_installed |-> FALSE, notes |-> <<>>, tags |-> <<97, 44, 98>>]

\* every text field as long as its on-disk field can hold without loss
GameB ==
    [id |-> 2147483647, name |-> Fill(SIZEOF_NAME - 1), disk_space |-> Dbl48,
     ram_usage |-> Dbl15, vram_required |-> Dbl05, genre |-> Fill(SIZEOF_GENRE - 1),
     completed |-> FALSE, url |-> Fill(SIZEOF_URL - 1), user_id |-> 2, rating |-> 10,
     is_favorite |-> FALSE, is_installed |-> TRUE, notes |-> Fill(SIZEOF_NOTES - 1),
     tags |-> Fill(SIZEOF_TAGS - 1)]

\* every text field as long as its on-disk field
GameC ==
    [id |-> 3, name |-> Wide(SIZEOF_NAME), disk_space |-> Dbl15, ram_usage |-> Dbl15,
     vram_required |-> Dbl15, genre |-> Fill(SIZEOF_GENRE), completed |-> TRUE,
     url |-> Fill(SIZEOF_URL), user_id |-> 1, rating |-> 0, is_favorite |-> TRUE,
     is_installed |-> TRUE, notes |-> Fill(SIZEOF_NOTES), tags |-> Fill(SIZEOF_TAGS)]

\* a name far longer than its field, and every extended field set
GameD ==
    [GameA EXCEPT !.id = 4, !.name = Wide(SIZEOF_NAME + 44), !.user_id = 2, !.rating = 7,
                  !.is_installed = TRUE, !.notes = <<103, 103>>]

\* another record of the owner of GameD: its name differs from GameD's in its
\* last letter only, beyond what the name field holds
GameE ==
    [GameD EXCEPT !.id = 5,
                  !.name = SubSeq(Wide(SIZEOF_NAME + 44), 1, SIZEOF_NAME + 42) \o <<208, 144>>,
                  !.disk_space = Dbl48, !.rating = 3]

Games == {GameA, GameB, GameC, GameD}

\* the encoded input records, computed once
EncodedRecord == [g \in Games \cup {GameE} |-> EncodeRecord(g)]

\* a variant of EncodeRecords that puts the records in reverse order
RECURSIVE EncodeRecords_Reversed(_)
EncodeRecords_Reversed(games) ==
    IF games = <<>> THEN <<>>
    ELSE EncodeRecords_Reversed(Tail(games)) \o EncodedRecord[Head(games)]

\* records.data(): the encoded records of games, one after the other
RECURSIVE EncodeRecords(_)
EncodeRecords(games) ==
    IF games = <<>> THEN <<>>
    ELSE EncodedRecord[Head(games)] \o EncodeRecords(Tail(games))

\* a variant of WriterHeader that hashes only when there are records
WriterHeader_NoEmptyHash(o, records, count) ==
    LET hash == IF count # 0 THEN sha256(o, records, count * SizeofRecord) ELSE <<>>
        n == Min(Len(hash), SIZEOF_HASH)
        slot == SubSeq(hash, 1, n) \o Zeros(SIZEOF_HASH - n)
    IN  HeaderBytes(FILE_MAGIC, FILE_VERSION, count, slot, Zeros(SIZEOF_RESERVED))

\* a variant of WriterHeader that copies the digest as a C string into the
\* slot: sizeof(hash) - 1 characters and a terminator
WriterHeader_Terminated(o, records, count) ==
    LET hash == IF count # 0
                THEN sha256(o, records, count * SizeofRecord)
                ELSE sha256(o, <<>>, 0)
        slot == strncpy(Zeros(SIZEOF_HASH), c_str(hash), SIZEOF_HASH - 1)
    IN  HeaderBytes(FILE_MAGIC, FILE_VERSION, count, slot, Zeros(SIZEOF_RESERVED))

\* the header the writer builds over its records (count of them)
WriterHeader(o, records, count) ==
    LET hash == IF count # 0
                THEN sha256(o, records, count * SizeofRecord)
                ELSE sha256(o, <<>>, 0)
        n == Min(Len(hash), SIZEOF_HASH)
        slot == SubSeq(hash, 1, n) \o Zeros(SIZEOF_HASH - n)
    IN  HeaderBytes(FILE_MAGIC, FILE_VERSION, count, slot, Zeros(SIZEOF_RESERVED))

(***************************************************************************)
(* File streams.                                                           *)
(***************************************************************************)
NoFile == [exists |-> FALSE, bytes |-> <<>>]

\* a variant of ofstream_open that opens the file for appending
ofstream_open_Append(file, env) ==
    [bytes |-> file.bytes, room |-> env.room, good |-> TRUE]

\* std::ofstream file(filename, std::ios::binary) that could be opened: the
\* file is created or truncated to no bytes
ofstream_open(file, env) ==
    [bytes |-> <<>>, room |-> env.room, good |-> TRUE]

\* std::ofstream::write on an open stream in good state: room is the number
\* of bytes the device still takes; a write that does not fit stores what
\* fits and leaves the stream in a failed state
ofstream_write(st, data) ==
    IF ~st.good THEN st
    ELSE IF Len(data) <= st.room
    THEN [st EXCEPT !.bytes = @ \o data, !.room = @ - Len(data)]
    ELSE [st EXCEPT !.bytes = @ \o SubSeq(data, 1, st.room), !.room = 0, !.good = FALSE]

\* a variant of istream_read whose short read leaves the stream in good state
istream_read_NoFail(st, buf, n) ==
    LET avail == Len(st.bytes) - st.pos
        m == Min(n, avail)
    IN  [st |-> [st EXCEPT !.pos = @ + m],
         buf |-> SubSeq(st.bytes, st.pos + 1, st.pos + m) \o SubSeq(buf, m + 1, Len(buf))]

\* std::istream::read(buf, n): n bytes into buf when the file has them;
\* otherwise what is left goes into buf and the stream fails (eofbit and
\* failbit), after which every read leaves buf alone
istream_read(st, buf, n) ==
    IF ~st.good THEN [st |-> st, buf |-> buf]
    ELSE LET avail == Len(st.bytes) - st.pos
         IN  IF n <= avail
             THEN [st |-> [st EXCEPT !.pos = @ + n],
                   buf |-> SubSeq(st.bytes, st.pos + 1, st.pos + n)
                             \o SubSeq(buf, n + 1, Len(buf))]
             ELSE [st |-> [st EXCEPT !.pos = Len(st.bytes), !.good = FALSE],
                   buf |-> SubSeq(st.bytes, st.pos + 1, Len(st.bytes))
                             \o SubSeq(buf, avail + 1, Len(buf))]

\* a variant of fstream_dtor for a stream held in a way that is never destroyed
fstream_dtor_Leak(open) == open

\* the destructor of a file stream closes it
fstream_dtor(open) == FALSE

(***************************************************************************)
(* DatabaseManager::writeGamesToFile.  env.can_open: the path can be       *)
(* opened for writing; env.room: bytes the device takes.                   *)
(***************************************************************************)
\* [ok, fs, open, last_error, hashed, opened, complete]; opened: the stream
\* was opened; complete: every byte handed to the stream reached the file
writeGamesToFile(o, file, err, games, env) ==
    LET records == EncodeRecords(games)
        header == WriterHeader(o, records, Len(games))
    IN  IF ~env.can_open
        THEN [ok |-> FALSE, fs |-> file, open |-> FALSE,
              last_error |-> "Cannot open file for writing: path",
              hashed |-> Sha256Input(records, Len(records)),
              opened |-> FALSE, complete |-> FALSE]
        ELSE LET s0 == ofstream_open(file, env)
                 s1 == ofstream_write(s0, header)
                 s2 == IF games # <<>> THEN ofstream_write(s1, records) ELSE s1
             IN  [ok |-> TRUE, fs |-> [exists |-> TRUE, bytes |-> s2.bytes],
                  open |-> FALSE, last_error |-> err,
                  hashed |-> Sha256Input(records, Len(records)),
                  opened |-> TRUE, complete |-> s2.good]

(***************************************************************************)
(* DatabaseManager::verifyBinaryFile.  alloc_ok: a record vector longer    *)
(* than MaxAlloc can be allocated (otherwise its construction throws       *)
(* std::bad_alloc).                                                        *)
(***************************************************************************)
\* a variant of AcceptedVersion that also takes version 2
AcceptedVersion_Two(v) == v = FILE_VERSION \/ v = LEGACY_VERSION \/ v = 2

AcceptedVersion(v) == v = FILE_VERSION \/ v = LEGACY_VERSION

\* a variant of HeaderCheck that checks the version before the magic
HeaderCheck_VersionFirst(header) ==
    IF ~AcceptedVersion(Uint16Of(SubSeq(header, OffVersion, OffVersion + 1)))
    THEN "INVALID_VERSION"
    ELSE IF SubSeq(header, 1, 4) # Le32(FILE_MAGIC) THEN "INVALID_MAGIC"
    ELSE ""

\* the checks on the header that was read: magic first, then version; ""
\* when both pass
HeaderCheck(header) ==
    IF SubSeq(header, 1, 4) # Le32(FILE_MAGIC) THEN "INVALID_MAGIC"
    ELSE IF ~AcceptedVersion(Uint16Of(SubSeq(header, OffVersion, OffVersion + 1)))
    THEN "INVALID_VERSION"
    ELSE ""

\* a variant of HashCheck whose digest covers the reserved bytes of the header too
HashCheck_WithReserved(o, header, records, n) ==
    LET covered == SubSeq(header, OffReserved, SizeofHeader) \o records
        calculated_hash == sha256(o, covered, Len(covered))
        stored_hash == SubSeq(header, OffHash, OffHash + SIZEOF_HASH - 1)
    IN  IF calculated_hash # stored_hash THEN "HASH_MISMATCH" ELSE "OK"

\* the comparison of the recomputed digest with the header's hash slot
HashCheck(o, header, records, n) ==
    LET calculated_hash == IF n # 0
                           THEN sha256(o, records, n * SizeofRecord)
                           ELSE sha256(o, <<>>, 0)
        stored_hash == SubSeq(header, OffHash, OffHash + SIZEOF_HASH - 1)
    IN  IF calculated_hash # stored_hash THEN "HASH_MISMATCH" ELSE "OK"

\* a variant of VerifyBody that does not test the stream after reading the header
VerifyBody_HeaderUnchecked(o, file, alloc_ok) ==
    IF ~file.exists
    THEN [thrown |-> FALSE, result |-> "FILE_NOT_FOUND", open |-> FALSE, hashed |-> <<>>]
    ELSE
    LET s0 == [bytes |-> file.bytes, pos |-> 0, good |-> TRUE]
        r1 == istream_read(s0, BinaryFileHeader, SizeofHeader)
        header == r1.buf
        avail == (Len(file.bytes) - r1.st.pos) \div SizeofRecord
        cnt == SubSeq(header, OffRecordCount, OffRecordCount + 3)
    IN  IF HeaderCheck(header) # ""
        THEN [thrown |-> FALSE, result |-> HeaderCheck(header), open |-> TRUE, hashed |-> <<>>]
        ELSE IF Uint32Min(cnt, MaxAlloc + 1) > MaxAlloc /\ ~alloc_ok
        THEN [thrown |-> TRUE, result |-> "std::bad_alloc", open |-> TRUE, hashed |-> <<>>]
        ELSE IF Uint32Min(cnt, avail + 1) > avail
        THEN [thrown |-> FALSE, result |-> "READ_ERROR", open |-> TRUE, hashed |-> <<>>]
        ELSE
        LET n == Uint32Min(cnt, avail)
            records == SubSeq(file.bytes, r1.st.pos + 1, r1.st.pos + n * SizeofRecord)
        IN  [thrown |-> FALSE, result |-> HashCheck(o, header, records, n),
             open |-> FALSE, hashed |-> Sha256Input(records, n * SizeofRecord)]

\* the try block: [thrown, result, open, hashed]; open: the stream is open
\* when the function is left
VerifyBody(o, file, alloc_ok) ==
    IF ~file.exists
    THEN [thrown |-> FALSE, result |-> "FILE_NOT_FOUND", open |-> FALSE, hashed |-> <<>>]
    ELSE
    LET s0 == [bytes |-> file.bytes, pos |-> 0, good |-> TRUE]
        r1 == istream_read(s0, BinaryFileHeader, SizeofHeader)
        header == r1.buf
        avail == (Len(file.bytes) - r1.st.pos) \div SizeofRecord
        cnt == SubSeq(header, OffRecordCount, OffRecordCount + 3)
    IN  IF ~r1.st.good
        THEN [thrown |-> FALSE, result |-> "READ_ERROR", open |-> TRUE, hashed |-> <<>>]
        ELSE IF HeaderCheck(header) # ""
        THEN [thrown |-> FALSE, result |-> HeaderCheck(header), open |-> TRUE, hashed |-> <<>>]
        ELSE IF Uint32Min(cnt, MaxAlloc + 1) > MaxAlloc /\ ~alloc_ok
        THEN [thrown |-> TRUE, result |-> "std::bad_alloc", open |-> TRUE, hashed |-> <<>>]
        ELSE IF Uint32Min(cnt, avail + 1) > avail
        THEN [thrown |-> FALSE, result |-> "READ_ERROR", open |-> TRUE, hashed |-> <<>>]
        ELSE
        LET n == Uint32Min(cnt, avail)
            records == SubSeq(file.bytes, r1.st.pos + 1, r1.st.pos + n * SizeofRecord)
        IN  [thrown |-> FALSE, result |-> HashCheck(o, header, records, n),
             open |-> FALSE, hashed |-> Sha256Input(records, n * SizeofRecord)]

\* a variant of VerifyCatch without the catch clause
VerifyCatch_Rethrow(r, err) ==
    IF r.thrown
    THEN [escaped |-> TRUE, result |-> r.result, last_error |-> err]
    ELSE [escaped |-> FALSE, result |-> r.result, last_error |-> err]

\* the catch clause: any std::exception becomes READ_ERROR
VerifyCatch(r, err) ==
    IF r.thrown
    THEN [escaped |-> FALSE, result |-> "READ_ERROR",
          last_error |-> "Verification error: std::bad_alloc"]
    ELSE [escaped |-> FALSE, result |-> r.result, last_error |-> err]

\* [escaped, result, last_error, open, hashed]
verifyBinaryFile(o, file, err, alloc_ok) ==
    Let(VerifyBody(o, file, alloc_ok), LAMBDA r :
        Let(VerifyCatch(r, err), LAMBDA c :
            [escaped |-> c.escaped, result |-> c.result, last_error |-> c.last_error,
             open |-> IF r.open THEN fstream_dtor(r.open) ELSE FALSE,
             hashed |-> r.hashed]))

FileVerificationResult ==
    {"OK", "FILE_NOT_FOUND", "INVALID_MAGIC", "INVALID_VERSION", "HASH_MISMATCH", "READ_ERROR"}

\* DatabaseManager::getVerificationErrorText (the texts are Russian in the
\* source; they are given here in English)
getVerificationErrorText(result) ==
    CASE result = "OK" -> "File is correct"
      [] result = "FILE_NOT_FOUND" -> "File not found"
      [] result = "INVALID_MAGIC" -> "Invalid file format (not a Temporium file)"
      [] result = "INVALID_VERSION" -> "Unsupported file format version"
      [] result = "HASH_MISMATCH" -> "File is damaged or modified (checksum mismatch)"
      [] result = "READ_ERROR" -> "File read error"
      [] OTHER -> "Unknown error"

(***************************************************************************)
(* The store: DatabaseManager::addGame on the games table of               *)
(* initializeTables (id SERIAL, UNIQUE(name, user_id)).                    *)
(***************************************************************************)
\* a variant of addGame on a table without the UNIQUE(name, user_id) constraint
addGame_NoUnique(table, err, game) ==
    LET id == table.id_seq + 1
    IN  [ok |-> TRUE,
         table |-> [rows |-> Append(table.rows, [game EXCEPT !.id = id]), id_seq |-> id],
         last_error |-> err]

\* [ok, table, last_error]
addGame(table, err, game) ==
    LET id == table.id_seq + 1
    IN  IF \E i \in 1..Len(table.rows) :
              table.rows[i].name = game.name /\ table.rows[i].user_id = game.user_id
        THEN [ok |-> FALSE, table |-> [table EXCEPT !.id_seq = id],
              last_error |-> "Add game error: duplicate key"]
        ELSE [ok |-> TRUE,
              table |-> [rows |-> Append(table.rows, [game EXCEPT !.id = id]), id_seq |-> id],
              last_error |-> err]

(***************************************************************************)
(* Decoding one record.  mem is the record object followed by the memory   *)
(* behind it: a text field without a zero byte is read on into what        *)
(* follows it.                                                             *)
(***************************************************************************)
\* a variant of ImportGame that keeps the id and the owner stored in the file
ImportGame_Keep(mem, user_id) ==
    [Game EXCEPT
        !.id = Int32Of(SubSeq(mem, OffId, OffId + 3)),
        !.name = StdString(mem, OffName),
        !.disk_space = SubSeq(mem, OffDiskSpace, OffDiskSpace + 7),
        !.ram_usage = SubSeq(mem, OffRamUsage, OffRamUsage + 7),
        !.vram_required = SubSeq(mem, OffVramRequired, OffVramRequired + 7),
        !.genre = StdString(mem, OffGenre),
        !.completed = mem[OffCompleted] # 0,
        !.url = StdString(mem, OffUrl),
        !.user_id = Int32Of(SubSeq(mem, OffUserId, OffUserId + 3))]

\* a variant of ImportGame that also restores the five extended fields
ImportGame_Full(mem, user_id) ==
    [Game EXCEPT
        !.name = StdString(mem, OffName),
        !.disk_space = SubSeq(mem, OffDiskSpace, OffDiskSpace + 7),
        !.ram_usage = SubSeq(mem, OffRamUsage, OffRamUsage + 7),
        !.vram_required = SubSeq(mem, OffVramRequired, OffVramRequired + 7),
        !.genre = StdString(mem, OffGenre),
        !.completed = mem[OffCompleted] # 0,
        !.url = StdString(mem, OffUrl),
        !.user_id = user_id,
        !.rating = Int32Of(SubSeq(mem, OffRating, OffRating + 3)),
        !.is_favorite = mem[OffIsFavorite] # 0,
        !.is_installed = mem[OffIsInstalled] # 0,
        !.notes = StdString(mem, OffNotes),
        !.tags = StdString(mem, OffTags)]

\* the loop body of importFromBinaryFile
ImportGame(mem, user_id) ==
    [Game EXCEPT
        !.name = StdString(mem, OffName),
        !.disk_space = SubSeq(mem, OffDiskSpace, OffDiskSpace + 7),
        !.ram_usage = SubSeq(mem, OffRamUsage, OffRamUsage + 7),
        !.vram_required = SubSeq(mem, OffVramRequired, OffVramRequired + 7),
        !.genre = StdString(mem, OffGenre),
        !.completed = mem[OffCompleted] # 0,
        !.url = StdString(mem, OffUrl),
        !.user_id = user_id]

\* a variant of PreviewGame that decodes the fields the importer decodes
PreviewGame_Short(mem) ==
    [Game EXCEPT
        !.id = Int32Of(SubSeq(mem, OffId, OffId + 3)),
        !.name = StdString(mem, OffName),
        !.disk_space = SubSeq(mem, OffDiskSpace, OffDiskSpace + 7),
        !.ram_usage = SubSeq(mem, OffRamUsage, OffRamUsage + 7),
        !.vram_required = SubSeq(mem, OffVramRequired, OffVramRequired + 7),
        !.genre = StdString(mem, OffGenre),
        !.completed = mem[OffCompleted] # 0,
        !.url = StdString(mem, OffUrl),
        !.user_id = Int32Of(SubSeq(mem, OffUserId, OffUserId + 3))]

\* the loop body of readBinaryFile
PreviewGame(mem) ==
    [Game EXCEPT
        !.id = Int32Of(SubSeq(mem, OffId, OffId + 3)),
        !.name = StdString(mem, OffName),
        !.disk_space = SubSeq(mem, OffDiskSpace, OffDiskSpace + 7),
        !.ram_usage = SubSeq(mem, OffRamUsage, OffRamUsage + 7),
        !.vram_required = SubSeq(mem, OffVramRequired, OffVramRequired + 7),
        !.genre = StdString(mem, OffGenre),
        !.completed = mem[OffCompleted] # 0,
        !.url = StdString(mem, OffUrl),
        !.user_id = Int32Of(SubSeq(mem, OffUserId, OffUserId + 3)),
        !.rating = Int32Of(SubSeq(mem, OffRating, OffRating + 3)),
        !.is_favorite = mem[OffIsFavorite] # 0,
        !.is_installed = mem[OffIsInstalled] # 0,
        !.notes = StdString(mem, OffNotes),
        !.tags = StdString(mem, OffTags)]

\* the record objects the decode loop sees: n iterations, each reading one
\* record from the stream into a freshly constructed BinaryGameRecord
RECURSIVE ReadRecords(_, _)
ReadRecords(st, n) ==
    IF n = 0 THEN <<>>
    ELSE LET r == istream_read(st, BinaryGameRecord, SizeofRecord)
         IN  <<r.buf>> \o ReadRecords(r.st, n - 1)

\* the addGame calls of the import loop, in order: [table, last_error, added,
\* oks]; added: the records handed to addGame, oks: what each call returned
RECURSIVE ImportLoop(_, _, _, _, _)
ImportLoop(recs, tail, user_id, table, err) ==
    IF recs = <<>> THEN [table |-> table, last_error |-> err, added |-> <<>>, oks |-> <<>>]
    ELSE Let(ImportGame(Head(recs) \o tail, user_id), LAMBDA game :
            Let(addGame(table, err, game), LAMBDA a :
                [ImportLoop(Tail(recs), tail, user_id, a.table, a.last_error)
                    EXCEPT !.added = <<game>> \o @, !.oks = <<a.ok>> \o @]))

RECURSIVE PreviewLoop(_, _)
PreviewLoop(recs, tail) ==
    IF recs = <<>> THEN <<>>
    ELSE <<PreviewGame(Head(recs) \o tail)>> \o PreviewLoop(Tail(recs), tail)

\* a variant of ImportDecode that returns whether every addGame call succeeded
ImportDecode_AllOk(file, err, table, user_id, tail) ==
    IF ~file.exists
    THEN [ok |-> FALSE, table |-> table, last_error |-> "Cannot open file for reading: path",
          added |-> <<>>, oks |-> <<>>, open |-> FALSE, more |-> FALSE]
    ELSE LET s0 == [bytes |-> file.bytes, pos |-> 0, good |-> TRUE]
             r1 == istream_read(s0, BinaryFileHeader, SizeofHeader)
             cnt == SubSeq(r1.buf, OffRecordCount, OffRecordCount + 3)
             n == Uint32Min(cnt, MaxDecode)
         IN  Let(ImportLoop(ReadRecords(r1.st, n), tail, user_id, table, err), LAMBDA l :
                [ok |-> \A i \in 1..Len(l.oks) : l.oks[i],
                 table |-> l.table, last_error |-> l.last_error,
                 added |-> l.added, oks |-> l.oks, open |-> FALSE,
                 more |-> Uint32Min(cnt, MaxDecode + 1) > MaxDecode])

\* a variant of ImportDecode whose record loop reads from a stream that was
\* opened anew, at the first byte of the file
ImportDecode_Rewound(file, err, table, user_id, tail) ==
    IF ~file.exists
    THEN [ok |-> FALSE, table |-> table, last_error |-> "Cannot open file for reading: path",
          added |-> <<>>, oks |-> <<>>, open |-> FALSE, more |-> FALSE]
    ELSE LET s0 == [bytes |-> file.bytes, pos |-> 0, good |-> TRUE]
             r1 == istream_read(s0, BinaryFileHeader, SizeofHeader)
             cnt == SubSeq(r1.buf, OffRecordCount, OffRecordCount + 3)
             n == Uint32Min(cnt, MaxDecode)
         IN  Let(ImportLoop(ReadRecords(s0, n), tail, user_id, table, err), LAMBDA l :
                [ok |-> TRUE, table |-> l.table, last_error |-> l.last_error,
                 added |-> l.added, oks |-> l.oks, open |-> FALSE,
                 more |-> Uint32Min(cnt, MaxDecode + 1) > MaxDecode])

\* the second pass of importFromBinaryFile, over the file as it is then:
\* [ok, table, last_error, added, oks, open, more]
ImportDecode(file, err, table, user_id, tail) ==
    IF ~file.exists
    THEN [ok |-> FALSE, table |-> table, last_error |-> "Cannot open file for reading: path",
          added |-> <<>>, oks |-> <<>>, open |-> FALSE, more |-> FALSE]
    ELSE LET s0 == [bytes |-> file.bytes, pos |-> 0, good |-> TRUE]
             r1 == istream_read(s0, BinaryFileHeader, SizeofHeader)
             cnt == SubSeq(r1.buf, OffRecordCount, OffRecordCount + 3)
             n == Uint32Min(cnt, MaxDecode)
         IN  Let(ImportLoop(ReadRecords(r1.st, n), tail, user_id, table, err), LAMBDA l :
                [ok |-> TRUE, table |-> l.table, last_error |-> l.last_error,
                 added |-> l.added, oks |-> l.oks, open |-> FALSE,
                 more |-> Uint32Min(cnt, MaxDecode + 1) > MaxDecode])

\* a variant of importFromBinaryFile whose gate lets READ_ERROR through
importFromBinaryFile_Lenient(o, file, err, table, user_id, alloc_ok, tail) ==
    Let(verifyBinaryFile(o, file, err, alloc_ok), LAMBDA verification :
        IF verification.result \notin {"OK", "READ_ERROR"}
        THEN [ok |-> FALSE, verification |-> verification.result, table |-> table,
              last_error |-> getVerificationErrorText(verification.result),
              added |-> <<>>, oks |-> <<>>, open |-> verification.open,
              hashed |-> verification.hashed,
              more |-> FALSE]
        ELSE Let(ImportDecode(file, verification.last_error, table, user_id, tail), LAMBDA d :
                [ok |-> d.ok, verification |-> verification.result, table |-> d.table,
                 last_error |-> d.last_error, added |-> d.added, oks |-> d.oks,
                 open |-> verification.open \/ d.open, hashed |-> verification.hashed,
                 more |-> d.more]))

\* DatabaseManager::importFromBinaryFile: [ok, verification, table,
\* last_error, added, oks, open, hashed, more]
importFromBinaryFile(o, file, err, table, user_id, alloc_ok, tail) ==
    Let(verifyBinaryFile(o, file, err, alloc_ok), LAMBDA verification :
        IF verification.result # "OK"
        THEN [ok |-> FALSE, verification |-> verification.result, table |-> table,
              last_error |-> getVerificationErrorText(verification.result),
              added |-> <<>>, oks |-> <<>>, open |-> verification.open,
              hashed |-> verification.hashed,
              more |-> FALSE]
        ELSE Let(ImportDecode(file, verification.last_error, table, user_id, tail), LAMBDA d :
                [ok |-> d.ok, verification |-> verification.result, table |-> d.table,
                 last_error |-> d.last_error, added |-> d.added, oks |-> d.oks,
                 open |-> verification.open \/ d.open, hashed |-> verification.hashed,
                 more |-> d.more]))

\* a variant of readBinaryFile that checks the version as the verifier does
readBinaryFile_Checked(file, err, tail) ==
    IF ~file.exists
    THEN [games |-> <<>>, last_error |-> "Cannot open file for reading: path",
          open |-> FALSE, more |-> FALSE]
    ELSE LET s0 == [bytes |-> file.bytes, pos |-> 0, good |-> TRUE]
             r1 == istream_read(s0, BinaryFileHeader, SizeofHeader)
             cnt == SubSeq(r1.buf, OffRecordCount, OffRecordCount + 3)
             n == Uint32Min(cnt, MaxDecode)
         IN  IF HeaderCheck(r1.buf) # ""
             THEN [games |-> <<>>, last_error |-> "Invalid file format",
                   open |-> FALSE, more |-> FALSE]
             ELSE [games |-> PreviewLoop(ReadRecords(r1.st, n), tail), last_error |-> err,
                   open |-> FALSE, more |-> Uint32Min(cnt, MaxDecode + 1) > MaxDecode]

\* DatabaseManager::readBinaryFile: [games, last_error, open, more]
readBinaryFile(file, err, tail) ==
    IF ~file.exists
    THEN [games |-> <<>>, last_error |-> "Cannot open file for reading: path",
          open |-> FALSE, more |-> FALSE]
    ELSE LET s0 == [bytes |-> file.bytes, pos |-> 0, good |-> TRUE]
             r1 == istream_read(s0, BinaryFileHeader, SizeofHeader)
             cnt == SubSeq(r1.buf, OffRecordCount, OffRecordCount + 3)
             n == Uint32Min(cnt, MaxDecode)
         IN  IF SubSeq(r1.buf, 1, 4) # Le32(FILE_MAGIC)
             THEN [games |-> <<>>, last_error |-> "Invalid file format",
                   open |-> FALSE, more |-> FALSE]
             ELSE [games |-> PreviewLoop(ReadRecords(r1.st, n), tail), last_error |-> err,
                   open |-> FALSE, more |-> Uint32Min(cnt, MaxDecode + 1) > MaxDecode]

(***************************************************************************)
(* Files that no writeGamesToFile call made.                               *)
(***************************************************************************)
\* the hash slot of a header sealed over payload
SealedSlot(payload) == sha256(<<>>, payload, Len(payload))

\* the legacy record shape: the fields declared before the "new fields" of
\* BinaryGameRecord, id .. user_id
SizeofLegacyRecord == OffRating - 1
LegacyRecord(game) == SubSeq(EncodedRecord[game], 1, SizeofLegacyRecord)

\* a well-formed current file holding GameA, for the variants below
FileOfA(magic4, version, reserved) ==
    RawHeader(magic4, version, Le32(1), SealedSlot(EncodedRecord[GameA]), reserved)
      \o EncodedRecord[GameA]

NoRecords == [bytes |-> <<>>, sealed |-> <<>>, games |-> <<>>]

\* the record of GameA as another producer may store it: the genre and the
\* tags fill their fields to the last byte, without a zero byte
UnterminatedRecord ==
    SubSeq(EncodedRecord[GameA], 1, OffGenre - 1) \o Fill(SIZEOF_GENRE)
      \o SubSeq(EncodedRecord[GameA], OffCompleted, OffTags - 1) \o Fill(SIZEOF_TAGS)

Foreign ==
    [empty |-> NoRecords,
     short_header |-> [NoRecords EXCEPT !.bytes = SubSeq(BinaryFileHeader, 1, 50)],
     \* wrong magic, wrong version, wrong hash
     not_temporium |->
        [NoRecords EXCEPT
            !.bytes = RawHeader(<<82, 73, 70, 70>>, 9, Le32(1), Zeros(SIZEOF_HASH),
                                Zeros(SIZEOF_RESERVED)) \o EncodedRecord[GameA]],
     \* one byte of the magic differs, everything else is right
     wrong_magic |->
        [bytes |-> FileOfA(<<81, 77, 69, 84>>, FILE_VERSION, Zeros(SIZEOF_RESERVED)),
         sealed |-> EncodedRecord[GameA], games |-> <<GameA>>],
     \* wrong magic and a record count of 2^32 - 1
     wrong_magic_huge |->
        [NoRecords EXCEPT
            !.bytes = RawHeader(<<0, 0, 0, 0>>, FILE_VERSION, <<255, 255, 255, 255>>,
                                Zeros(SIZEOF_HASH), Zeros(SIZEOF_RESERVED))],
     version_2 |->
        [bytes |-> FileOfA(Le32(FILE_MAGIC), 2, Zeros(SIZEOF_RESERVED)),
         sealed |-> EncodedRecord[GameA], games |-> <<GameA>>],
     \* a version newer than the current one
     version_4 |->
        [bytes |-> FileOfA(Le32(FILE_MAGIC), FILE_VERSION + 1, Zeros(SIZEOF_RESERVED)),
         sealed |-> EncodedRecord[GameA], games |-> <<GameA>>],
     \* one record announced, 1000 bytes of it present
     partial_record |->
        [bytes |-> SubSeq(FileOfA(Le32(FILE_MAGIC), FILE_VERSION, Zeros(SIZEOF_RESERVED)),
                          1, SizeofHeader + 1000),
         sealed |-> EncodedRecord[GameA], games |-> <<GameA>>],
     \* two records announced, one present
     missing_record |->
        [bytes |-> RawHeader(Le32(FILE_MAGIC), FILE_VERSION, Le32(2),
                             SealedSlot(EncodedRecord[GameA]), Zeros(SIZEOF_RESERVED))
                     \o EncodedRecord[GameA],
         sealed |-> EncodedRecord[GameA], games |-> <<GameA>>],
     \* a record count of 2^32 - 1 and no record
     huge_count |->
        [NoRecords EXCEPT
            !.bytes = RawHeader(Le32(FILE_MAGIC), FILE_VERSION, <<255, 255, 255, 255>>,
                                Zeros(SIZEOF_HASH), Zeros(SIZEOF_RESERVED))],
     \* more records announced than can be allocated, none present
     over_alloc |->
        [NoRecords EXCEPT
            !.bytes = RawHeader(Le32(FILE_MAGIC), FILE_VERSION, Le32(MaxAlloc + 1),
                                Zeros(SIZEOF_HASH), Zeros(SIZEOF_RESERVED))],
     \* the hash slot holds the digest of another payload (the empty one)
     bad_hash |->
        [bytes |-> RawHeader(Le32(FILE_MAGIC), FILE_VERSION, Le32(1), SealedSlot(<<>>),
                             Zeros(SIZEOF_RESERVED)) \o EncodedRecord[GameA],
         sealed |-> <<>>, games |-> <<GameA>>],
     \* legacy version, legacy record shape, sealed over the legacy bytes
     legacy |->
        [bytes |-> RawHeader(Le32(FILE_MAGIC), LEGACY_VERSION, Le32(1),
                             SealedSlot(LegacyRecord(GameA)), Zeros(SIZEOF_RESERVED))
                     \o LegacyRecord(GameA),
         sealed |-> LegacyRecord(GameA), games |-> <<GameA>>],
     legacy_three |->
        [bytes |-> RawHeader(Le32(FILE_MAGIC), LEGACY_VERSION, Le32(3),
                             SealedSlot(LegacyRecord(GameA) \o LegacyRecord(GameD)
                                          \o LegacyRecord(GameA)),
                             Zeros(SIZEOF_RESERVED))
                     \o LegacyRecord(GameA) \o LegacyRecord(GameD) \o LegacyRecord(GameA),
         sealed |-> LegacyRecord(GameA) \o LegacyRecord(GameD) \o LegacyRecord(GameA),
         games |-> <<GameA, GameD, GameA>>],
     \* a current file of another producer that filled the reserved bytes
     reserved_set |->
        [bytes |-> FileOfA(Le32(FILE_MAGIC), FILE_VERSION, [i \in 1..SIZEOF_RESERVED |-> 1]),
         sealed |-> EncodedRecord[GameA], games |-> <<GameA>>],
     \* a current file of another producer whose text fields have no zero byte
     unterminated |->
        [bytes |-> RawHeader(Le32(FILE_MAGIC), FILE_VERSION, Le32(1),
                             SealedSlot(UnterminatedRecord), Zeros(SIZEOF_RESERVED))
                     \o UnterminatedRecord,
         sealed |-> UnterminatedRecord,
         games |-> <<[GameA EXCEPT !.genre = Fill(SIZEOF_GENRE),
                                   !.tags = Fill(SIZEOF_TAGS)]>>]]

ForeignKinds == DOMAIN Foreign

(***************************************************************************)
(* Inputs of the calls.                                                    *)
(***************************************************************************)
GameLists == UNION {[1..n -> Games] : n \in 0..MaxGames}

\* the record lists of the import specification
GateLists == {<<GameA>>, <<GameD, GameA>>}

\* the record lists of the repeated imports
ImportLists == GateLists \cup {<<GameA, GameD>>, <<GameD, GameE>>}

\* the record lists of the tamper specification
TamperLists == {<<GameA>>, <<GameB>>}

\* users that import
Owners == {2, 5}

\* what lies behind a record object on the stack of a decode loop
StackTails == {<<0>>, <<204, 0>>}

\* a device that takes everything
Unlimited == [can_open |-> TRUE, room |-> 1073741824]

\* a path that cannot be opened for writing
NoOpen == [can_open |-> FALSE, room |-> 0]

\* devices that fill up: at once, inside the header, after the header,
\* inside the first record, after the first record
Filling ==
    {[can_open |-> TRUE, room |-> n] :
        n \in {0, 50, SizeofHeader, SizeofHeader + 1000, SizeofHeader + SizeofRecord}}

Devices == {Unlimited, NoOpen} \cup Filling

\* the record lists written to them
DeviceLists == {<<>>, <<GameA>>, <<GameB, GameA>>}

(***************************************************************************)
(* State.                                                                  *)
(***************************************************************************)
\* ret.more: the decode loop goes on beyond MaxDecode iterations;
\* ret.signal: the call set last_error_ to another text; ret.oks: what the
\* addGame calls of an import returned; ret.env: the device a write met
NoCall ==
    [op |-> "none", ok |-> TRUE, result |-> "", games |-> <<>>, owner |-> 0,
     escaped |-> FALSE, more |-> FALSE, signal |-> FALSE, oks |-> <<>>,
     env |-> Unlimited]

\* origin.kind: "written" for a file a write left complete, "cut" for one a
\* failing device cut short; origin.before: the length of the file the
\* write replaced; origin.off: the offset of a changed byte
NoOrigin == [kind |-> "none", games |-> <<>>, off |-> 0, before |-> 0]

Streams(open) == IF open THEN 1 ELSE 0

\* no call is in progress
NoFlight ==
    [op |-> "none", games |-> <<>>, out |-> <<>>, base |-> <<>>, reached |-> 0,
     old |-> NoFile, user_id |-> 0, verified |-> NoFile]

\* the users table before any user is registered
NoUsers == [rows |-> <<>>, id_seq |-> 0]

Init ==
    /\ fs = NoFile
    /\ oracle = <<>>
    /\ last_error_ = ""
    /\ games_table = [rows |-> <<>>, id_seq |-> 0]
    /\ ret = NoCall
    /\ open_streams = 0
    /\ origin = NoOrigin
    /\ nverify = 0
    /\ inflight = NoFlight
    /\ users_table = NoUsers

\* exportToBinaryFile / exportFilteredToBinaryFile: the store's records written
\* on the device env
Export(games, env) ==
    \E r \in {writeGamesToFile(<<>>, fs, last_error_, games, env)} :
        /\ fs' = r.fs
        /\ oracle' = IF r.opened THEN Learn(<<>>, r.hashed) ELSE oracle
        /\ last_error_' = r.last_error
        /\ ret' = [NoCall EXCEPT !.op = "write", !.ok = r.ok, !.games = games,
                                 !.signal = (r.last_error # last_error_), !.env = env]
        /\ open_streams' = Streams(r.open)
        /\ origin' = IF r.opened
                     THEN [NoOrigin EXCEPT !.kind = IF r.complete THEN "written" ELSE "cut",
                                           !.games = games, !.before = Len(fs.bytes)]
                     ELSE origin
        /\ nverify' = 0
        /\ UNCHANGED <<games_table, inflight, users_table>>

Verify(alloc_ok) ==
    /\ nverify < MaxVerifyCalls
    /\ \E r \in {verifyBinaryFile(oracle, fs, last_error_, alloc_ok)} :
        /\ last_error_' = r.last_error
        /\ ret' = [NoCall EXCEPT !.op = "verify", !.result = r.result, !.escaped = r.escaped,
                                 !.signal = (r.last_error # last_error_)]
        /\ open_streams' = Streams(r.open)
        /\ nverify' = nverify + 1
        /\ UNCHANGED <<fs, oracle, games_table, origin, inflight, users_table>>

Preview(tail) ==
    \E r \in {readBinaryFile(fs, last_error_, tail)} :
        /\ last_error_' = r.last_error
        /\ ret' = [NoCall EXCEPT !.op = "read", !.games = r.games, !.more = r.more,
                                 !.signal = (r.last_error # last_error_)]
        /\ open_streams' = Streams(r.open)
        /\ nverify' = 0
        /\ UNCHANGED <<fs, oracle, games_table, origin, inflight, users_table>>

Import(user_id, alloc_ok, tail) ==
    /\ games_table.id_seq < MaxInserts
    /\ \E r \in {importFromBinaryFile(oracle, fs, last_error_, games_table, user_id,
                                      alloc_ok, tail)} :
        /\ last_error_' = r.last_error
        /\ games_table' = r.table
        /\ ret' = [NoCall EXCEPT !.op = "import", !.ok = r.ok, !.result = r.verification,
                                 !.games = r.added, !.owner = user_id, !.more = r.more,
                                 !.oks = r.oks,
                                 !.signal = (r.last_error # last_error_)]
        /\ open_streams' = Streams(r.open)
        /\ nverify' = 0
        /\ UNCHANGED <<fs, oracle, origin, inflight, users_table>>

\* the file is deleted
Remove ==
    /\ fs.exists
    /\ fs' = NoFile
    /\ oracle' = <<>>
    /\ origin' = NoOrigin
    /\ ret' = NoCall
    /\ nverify' = 0
    /\ UNCHANGED <<last_error_, games_table, open_streams, inflight, users_table>>

\* a file of another origin is put at the path
Place(kind) ==
    /\ fs' = [exists |-> TRUE, bytes |-> Foreign[kind].bytes]
    /\ oracle' = Learn(<<>>, Foreign[kind].sealed)
    /\ origin' = [NoOrigin EXCEPT !.kind = kind, !.games = Foreign[kind].games]
    /\ ret' = NoCall
    /\ nverify' = 0
    /\ UNCHANGED <<last_error_, games_table, open_streams, inflight, users_table>>

\* the values one byte of a file is changed to
NewBytes(b) == {0, 255} \ {b}

\* one byte of the record payload of a written file is changed
TamperPayload ==
    /\ origin.kind = "written"
    /\ fs.exists
    /\ \E off \in (SizeofHeader + 1)..Len(fs.bytes) :
         \E v \in NewBytes(fs.bytes[off]) :
            /\ fs' = [fs EXCEPT !.bytes[off] = v]
            /\ origin' = [origin EXCEPT !.kind = "payload_tampered", !.off = off]
    /\ ret' = NoCall
    /\ nverify' = 0
    /\ UNCHANGED <<oracle, last_error_, games_table, open_streams, inflight, users_table>>

\* one byte of the reserved region of the header of a written file is changed
TamperReserved ==
    /\ origin.kind = "written"
    /\ fs.exists
    /\ \E off \in OffReserved..SizeofHeader :
         \E v \in NewBytes(fs.bytes[off]) :
            /\ fs' = [fs EXCEPT !.bytes[off] = v]
            /\ origin' = [origin EXCEPT !.kind = "reserved_tampered", !.off = off]
    /\ ret' = NoCall
    /\ nverify' = 0
    /\ UNCHANGED <<oracle, last_error_, games_table, open_streams, inflight, users_table>>

(***************************************************************************)
(* Spec: export, verification and preview of the store's records.          *)
(***************************************************************************)
Next ==
    \/ \E games \in GameLists : Export(games, Unlimited)
    \/ \E alloc_ok \in BOOLEAN : Verify(alloc_ok)
    \/ \E tail \in StackTails : Preview(tail)
    \/ Remove

Spec == Init /\ [][Next]_vars

(***************************************************************************)
(* SpecGate: files of any origin verified, previewed and imported into an  *)
(* empty store.                                                            *)
(***************************************************************************)
NextGate ==
    \/ \E kind \in ForeignKinds : Place(kind)
    \/ \E games \in GateLists : Export(games, Unlimited)
    \/ \E alloc_ok \in BOOLEAN : Verify(alloc_ok)
    \/ \E tail \in StackTails : Preview(tail)
    \/ /\ games_table.rows = <<>> /\ games_table.id_seq = 0
       /\ \E user_id \in Owners, alloc_ok \in BOOLEAN, tail \in StackTails :
              Import(user_id, alloc_ok, tail)
    \/ Remove

SpecGate == Init /\ [][NextGate]_vars

(***************************************************************************)
(* SpecImport: written files imported again and again into the store.      *)
(***************************************************************************)
NextImport ==
    \/ \E games \in ImportLists : Export(games, Unlimited)
    \/ \E user_id \in Owners, alloc_ok \in BOOLEAN, tail \in StackTails :
           Import(user_id, alloc_ok, tail)
    \/ Remove

SpecImport == Init /\ [][NextImport]_vars

(***************************************************************************)
(* SpecDevice: writes to devices that fail, verified and previewed.        *)
(***************************************************************************)
NextDevice ==
    \/ \E games \in DeviceLists, env \in Devices : Export(games, env)
    \/ \E alloc_ok \in BOOLEAN : Verify(alloc_ok)
    \/ \E tail \in StackTails : Preview(tail)
    \/ Remove

SpecDevice == Init /\ [][NextDevice]_vars

(***************************************************************************)
(* SpecTamper: a written file, one byte of its payload changed, verified.  *)
(***************************************************************************)
InitTamper ==
    \E games \in TamperLists :
        LET r == writeGamesToFile(<<>>, NoFile, "", games, Unlimited)
        IN  /\ fs = r.fs
            /\ oracle = Learn(<<>>, r.hashed)
            /\ last_error_ = ""
            /\ games_table = [rows |-> <<>>, id_seq |-> 0]
            /\ ret = [NoCall EXCEPT !.op = "write", !.ok = r.ok, !.games = games,
                                    !.signal = (r.last_error # "")]
            /\ open_streams = 0
            /\ origin = [NoOrigin EXCEPT !.kind = "written", !.games = games]
            /\ nverify = 0
            /\ inflight = NoFlight
            /\ users_table = NoUsers

NextTamper ==
    \/ TamperPayload
    \/ \E alloc_ok \in BOOLEAN : Verify(alloc_ok)

SpecTamper == InitTamper /\ [][NextTamper]_vars

(***************************************************************************)
(* SpecReserved: a written file, one byte of the reserved region of its    *)
(* header changed, verified and previewed.                                 *)
(***************************************************************************)
NextReserved ==
    \/ \E games \in TamperLists : Export(games, Unlimited)
    \/ TamperReserved
    \/ \E alloc_ok \in BOOLEAN : Verify(alloc_ok)
    \/ \E tail \in StackTails : Preview(tail)

SpecReserved == Init /\ [][NextReserved]_vars

(***************************************************************************)
(* SpecHeader: a written file with one byte of the header fields magic,    *)
(* version, record_count or hash changed, or with bytes appended after     *)
(* its last record, verified.                                              *)
(***************************************************************************)
\* the record lists of the header specification
HeaderLists == {<<>>, <<GameA>>, <<GameB>>}

\* the values a byte b of a header field is changed to
NewHeaderBytes(b) == {0, LEGACY_VERSION, (b + 1) % 256, 255} \ {b}

\* what is appended after the last record: a byte, or a whole record
Appended == {<<0>>, <<255>>, EncodedRecord[GameA]}

\* one byte of magic, version, record_count or hash of a written file is changed
TamperHeader ==
    /\ origin.kind = "written"
    /\ fs.exists
    /\ \E off \in 1..(OffReserved - 1) :
         \E v \in NewHeaderBytes(fs.bytes[off]) :
            /\ fs' = [fs EXCEPT !.bytes[off] = v]
            /\ origin' = [origin EXCEPT !.kind = "header_tampered", !.off = off,
                                        !.before = fs.bytes[off]]
    /\ ret' = NoCall
    /\ nverify' = 0
    /\ UNCHANGED <<oracle, last_error_, games_table, open_streams, inflight, users_table>>

\* bytes are appended to a written file
AppendBytes(extra) ==
    /\ origin.kind = "written"
    /\ fs.exists
    /\ fs' = [fs EXCEPT !.bytes = @ \o extra]
    /\ origin' = [origin EXCEPT !.kind = "appended", !.off = Len(extra),
                                !.before = Len(fs.bytes)]
    /\ ret' = NoCall
    /\ nverify' = 0
    /\ UNCHANGED <<oracle, last_error_, games_table, open_streams, inflight, users_table>>

NextHeader ==
    \/ \E games \in HeaderLists : Export(games, Unlimited)
    \/ TamperHeader
    \/ \E extra \in Appended : AppendBytes(extra)
    \/ \E alloc_ok \in BOOLEAN : Verify(alloc_ok)

SpecHeader == Init /\ [][NextHeader]_vars

(***************************************************************************)
(* SpecCrash: the process ends in the middle of writeGamesToFile, after    *)
(* the target was opened; the file is verified by the next process.        *)
(***************************************************************************)
\* the record lists whose write is interrupted
CrashLists == {<<>>, <<GameA>>, <<GameB, GameA>>}

\* the process ends between the open of line 740 and the close of line 753
\* with the first `reached` bytes of the two writes in the file, fewer than
\* all of them; the next process starts with a new DatabaseManager.  The open
\* truncates, so the path is taken to hold no file before.
Crash(games) ==
    /\ ~fs.exists
    /\ \E r \in {writeGamesToFile(<<>>, fs, "", games, Unlimited)} :
        \E reached \in 0..(Len(r.fs.bytes) - 1) :
            /\ fs' = [exists |-> TRUE, bytes |-> SubSeq(r.fs.bytes, 1, reached)]
            /\ oracle' = Learn(<<>>, r.hashed)
            /\ last_error_' = ""
            /\ ret' = [NoCall EXCEPT !.op = "crash", !.games = games]
            /\ open_streams' = 0
            /\ origin' = [NoOrigin EXCEPT !.kind = "crashed", !.games = games,
                                          !.off = reached]
            /\ nverify' = 0
            /\ UNCHANGED <<games_table, inflight, users_table>>

NextCrash ==
    \/ \E games \in CrashLists : Crash(games)
    \/ \E alloc_ok \in BOOLEAN : Verify(alloc_ok)
    \/ Remove

SpecCrash == Init /\ [][NextCrash]_vars

(***************************************************************************)
(* SpecRace: writeGamesToFile runs in steps (the open of line 740, the     *)
(* stream handing bytes to the file, the close of line 753) while          *)
(* verifyBinaryFile and readBinaryFile are called on the same path.  No    *)
(* call takes a lock (there is none in the source).                        *)
(***************************************************************************)
\* the record lists written, before and during the race
RaceLists == {<<>>, <<GameA>>, <<GameB, GameA>>}

\* lengths at which the stream's output is followed on its way to the file:
\* inside the header, after the first write call, inside the first record,
\* after the first record
WritePoints == {50, SizeofHeader, SizeofHeader + 1000, SizeofHeader + SizeofRecord}

\* lines 696-744: the records are encoded and hashed, the header is built,
\* and the stream is opened, which truncates the file
WriteOpen(games) ==
    /\ inflight.op = "none"
    /\ \E r \in {writeGamesToFile(<<>>, fs, last_error_, games, Unlimited)} :
        \E s0 \in {ofstream_open(fs, Unlimited)} :
            /\ inflight' = [NoFlight EXCEPT !.op = "write", !.games = games,
                                            !.out = SubSeq(r.fs.bytes, Len(s0.bytes) + 1,
                                                           Len(r.fs.bytes)),
                                            !.base = s0.bytes, !.old = fs]
            /\ fs' = [exists |-> TRUE, bytes |-> s0.bytes]
            /\ oracle' = Learn(<<>>, r.hashed)
            /\ origin' = [NoOrigin EXCEPT !.kind = "writing", !.games = games,
                                          !.before = Len(fs.bytes)]
            /\ ret' = NoCall
            /\ nverify' = 0
            /\ UNCHANGED <<last_error_, games_table, open_streams, users_table>>

\* lines 746-751: the stream has handed the first `reached` bytes to the file
WriteFlush(reached) ==
    /\ inflight.op = "write"
    /\ inflight.reached < reached
    /\ reached < Len(inflight.out)
    /\ inflight' = [inflight EXCEPT !.reached = reached]
    /\ fs' = [exists |-> TRUE, bytes |-> inflight.base \o SubSeq(inflight.out, 1, reached)]
    /\ origin' = [origin EXCEPT !.off = reached]
    /\ ret' = NoCall
    /\ nverify' = 0
    /\ UNCHANGED <<oracle, last_error_, games_table, open_streams, users_table>>

\* lines 753-754: close() hands over the rest and the call returns true
WriteClose ==
    /\ inflight.op = "write"
    /\ inflight' = NoFlight
    /\ fs' = [exists |-> TRUE, bytes |-> inflight.base \o inflight.out]
    /\ origin' = [NoOrigin EXCEPT !.kind = "written", !.games = inflight.games,
                                  !.before = Len(inflight.old.bytes)]
    /\ ret' = [NoCall EXCEPT !.op = "write", !.ok = TRUE, !.games = inflight.games]
    /\ nverify' = 0
    /\ UNCHANGED <<oracle, last_error_, games_table, open_streams, users_table>>

NextRace ==
    \/ \E games \in RaceLists : WriteOpen(games)
    \/ \E reached \in WritePoints : WriteFlush(reached)
    \/ WriteClose
    \/ \E alloc_ok \in BOOLEAN : Verify(alloc_ok)
    \/ \E tail \in StackTails : Preview(tail)
    \/ inflight.op = "none" /\ Remove

SpecRace == Init /\ [][NextRace]_vars

(***************************************************************************)
(* SpecToctou: importFromBinaryFile runs in its two passes, the            *)
(* verification (line 851) and the decode loop over the file opened again  *)
(* (lines 858-884), while another process writes to the same path.         *)
(***************************************************************************)
\* the record lists written to the path
ToctouLists == {<<GameA>>, <<GameB, GameA>>}

\* the files of another origin put at the path
ToctouKinds == {"bad_hash", "version_2"}

\* lines 851-855: the verification pass; any outcome but OK ends the call
ImportVerifyPass(user_id, alloc_ok) ==
    /\ inflight.op = "none"
    /\ games_table.id_seq < MaxInserts
    /\ \E v \in {verifyBinaryFile(oracle, fs, last_error_, alloc_ok)} :
        /\ inflight' = IF v.result = "OK"
                       THEN [NoFlight EXCEPT !.op = "import", !.user_id = user_id,
                                             !.verified = fs, !.games = origin.games]
                       ELSE NoFlight
        /\ last_error_' = IF v.result = "OK" THEN v.last_error
                          ELSE getVerificationErrorText(v.result)
        /\ ret' = IF v.result = "OK" THEN NoCall
                  ELSE [NoCall EXCEPT !.op = "import", !.ok = FALSE, !.result = v.result,
                                      !.owner = user_id, !.signal = TRUE]
        /\ open_streams' = Streams(v.open)
        /\ nverify' = 0
        /\ UNCHANGED <<fs, oracle, games_table, origin, users_table>>

\* lines 857-889: the decode pass, over the file as it is when it is opened
ImportDecodePass(tail) ==
    /\ inflight.op = "import"
    /\ \E d \in {ImportDecode(fs, last_error_, games_table, inflight.user_id, tail)} :
        /\ inflight' = [inflight EXCEPT !.op = "none"]
        /\ last_error_' = d.last_error
        /\ games_table' = d.table
        /\ ret' = [NoCall EXCEPT !.op = "import", !.ok = d.ok, !.result = "OK",
                                 !.games = d.added, !.owner = inflight.user_id,
                                 !.more = d.more, !.oks = d.oks,
                                 !.signal = (d.last_error # last_error_)]
        /\ open_streams' = Streams(d.open)
        /\ nverify' = 0
        /\ UNCHANGED <<fs, oracle, origin, users_table>>

NextToctou ==
    \/ \E games \in ToctouLists : Export(games, Unlimited)
    \/ \E kind \in ToctouKinds : Place(kind)
    \/ \E alloc_ok \in BOOLEAN : ImportVerifyPass(2, alloc_ok)
    \/ \E tail \in StackTails : ImportDecodePass(tail)
    \/ Remove

SpecToctou == Init /\ [][NextToctou]_vars

(***************************************************************************)
(* SpecUsers: the users table (id SERIAL, username UNIQUE, password_hash)  *)
(* with registerUser, authenticateUser and changeUsername.  A password     *)
(* hash is HashUtils::hashPassword(password, username), the user name      *)
(* being the salt, as in ensureAdminExists and changeUsername.             *)
(***************************************************************************)
\* the user names "ann", "bob", "rob" and the passwords "x", "y"
UsernameSeq == << <<97, 110, 110>>, <<98, 111, 98>>, <<114, 111, 98>> >>
PasswordSeq == << <<120>>, <<121>> >>
Usernames == {UsernameSeq[i] : i \in 1..Len(UsernameSeq)}
Passwords == {PasswordSeq[i] : i \in 1..Len(PasswordSeq)}

\* HashUtils::hashPassword(password, salt): sha256(salt + password + salt)
hashPassword(o, password, salt) ==
    LET salted_password == salt \o password \o salt
    IN  sha256(o, salted_password, Len(salted_password))

\* the salted passwords, in the order their digests are numbered
SaltedPasswords ==
    [k \in 1..(Len(UsernameSeq) * Len(PasswordSeq)) |->
        LET salt == UsernameSeq[((k - 1) \div Len(PasswordSeq)) + 1]
            password == PasswordSeq[((k - 1) % Len(PasswordSeq)) + 1]
        IN  salt \o password \o salt]

\* User(): id 0, empty strings, not an admin
User == [id |-> 0, username |-> <<>>, password_hash |-> <<>>, is_admin |-> FALSE]

\* DatabaseManager::registerUser: [ok, table, last_error]
registerUser(table, err, username, password_hash, is_admin) ==
    LET id == table.id_seq + 1
    IN  IF \E i \in 1..Len(table.rows) : table.rows[i].username = username
        THEN [ok |-> FALSE, table |-> [table EXCEPT !.id_seq = id],
              last_error |-> "Registration error: duplicate key"]
        ELSE [ok |-> TRUE,
              table |-> [rows |-> Append(table.rows,
                                         [id |-> id, username |-> username,
                                          password_hash |-> password_hash,
                                          is_admin |-> is_admin]),
                         id_seq |-> id],
              last_error |-> err]

\* DatabaseManager::authenticateUser: the row with this name and this hash, a
\* default User when there is none
authenticateUser(table, username, password_hash) ==
    LET found == {i \in 1..Len(table.rows) :
                     /\ table.rows[i].username = username
                     /\ table.rows[i].password_hash = password_hash}
    IN  IF found = {} THEN User ELSE table.rows[CHOOSE i \in found : TRUE]

\* DatabaseManager::changeUsername: [ok, table, last_error]
changeUsername(o, table, err, user_id, new_username, current_password) ==
    IF \E i \in 1..Len(table.rows) :
          table.rows[i].username = new_username /\ table.rows[i].id # user_id
    THEN [ok |-> FALSE, table |-> table, last_error |-> "A user with this name already exists"]
    ELSE IF ~\E i \in 1..Len(table.rows) : table.rows[i].id = user_id
    THEN [ok |-> FALSE, table |-> table, last_error |-> "User not found"]
    ELSE LET new_password_hash == hashPassword(o, current_password, new_username)
         IN  [ok |-> TRUE,
              table |-> [table EXCEPT !.rows =
                            [i \in 1..Len(table.rows) |->
                                IF table.rows[i].id = user_id
                                THEN [table.rows[i] EXCEPT !.username = new_username,
                                                           !.password_hash = new_password_hash]
                                ELSE table.rows[i]]],
              last_error |-> err]

\* a user registers under username with password
RegisterUser(username, password) ==
    /\ users_table.id_seq < MaxUsers
    /\ \E r \in {registerUser(users_table, last_error_, username,
                              hashPassword(oracle, password, username), FALSE)} :
        /\ users_table' = r.table
        /\ last_error_' = r.last_error
        /\ ret' = [NoCall EXCEPT !.op = "registerUser", !.ok = r.ok,
                                 !.signal = (r.last_error # last_error_)]
    /\ UNCHANGED <<fs, oracle, games_table, open_streams, origin, nverify, inflight>>

\* a login under username with password
AuthenticateUser(username, password) ==
    /\ \E user \in {authenticateUser(users_table, username,
                                     hashPassword(oracle, password, username))} :
        ret' = [NoCall EXCEPT !.op = "authenticateUser", !.ok = (user.id # 0),
                              !.owner = user.id]
    /\ UNCHANGED <<fs, oracle, last_error_, games_table, open_streams, origin, nverify,
                   inflight, users_table>>

ChangeUsername(user_id, new_username, current_password) ==
    /\ \E r \in {changeUsername(oracle, users_table, last_error_, user_id, new_username,
                                current_password)} :
        /\ users_table' = r.table
        /\ last_error_' = r.last_error
        /\ ret' = [NoCall EXCEPT !.op = "changeUsername", !.ok = r.ok, !.owner = user_id,
                                 !.signal = (r.last_error # last_error_)]
    /\ UNCHANGED <<fs, oracle, games_table, open_streams, origin, nverify, inflight>>

InitUsers ==
    /\ fs = NoFile
    /\ oracle = SaltedPasswords
    /\ last_error_ = ""
    /\ games_table = [rows |-> <<>>, id_seq |-> 0]
    /\ ret = NoCall
    /\ open_streams = 0
    /\ origin = NoOrigin
    /\ nverify = 0
    /\ inflight = NoFlight
    /\ users_table = NoUsers

NextUsers ==
    \/ \E username \in Usernames, password \in Passwords : RegisterUser(username, password)
    \/ \E username \in Usernames, password \in Passwords : AuthenticateUser(username, password)
    \/ \E user_id \in 1..MaxUsers, new_username \in Usernames, p \in Passwords :
           ChangeUsername(user_id, new_username, p)

SpecUsers == InitUsers /\ [][NextUsers]_vars

(***************************************************************************)
(* Properties.                                                             *)
(***************************************************************************)
\* the capacity of the on-disk field of each text field
Capacity ==
    [name |-> SIZEOF_NAME, genre |-> SIZEOF_GENRE, url |-> SIZEOF_URL,
     notes |-> SIZEOF_NOTES, tags |-> SIZEOF_TAGS]

\* every text field of every record is at most (capacity - slack) bytes long
TextWithin(games, slack) ==
    \A i \in 1..Len(games) :
        \A f \in DOMAIN Capacity : Len(games[i][f]) <= Capacity[f] - slack

\* the file at the path is the one the last writeGamesToFile call left
WrittenFile == origin.kind = "written"

\* C1, as stated: for every list R whose text fields are within the capacity
\* of their on-disk fields (256, 64, 512, 1024, 256 bytes), readBinaryFile of
\* the file written from R returns R, field for field and in order.
C1_RoundTripWithinCapacity ==
    (ret.op = "read" /\ WrittenFile /\ TextWithin(origin.games, 0))
        => ret.games = origin.games

\* C1, amended: for every list R whose text fields are each at most
\* (capacity - 1) bytes long (255, 63, 511, 1023, 255), readBinaryFile of the
\* file written from R returns R, field for field and in order, id, user_id,
\* the three measures, the booleans and the rating -1 included.
C1_RoundTrip ==
    (ret.op = "read" /\ WrittenFile /\ TextWithin(origin.games, 1))
        => ret.games = origin.games

\* C1: two records read back, one with every text field at (capacity - 1)
\* bytes, one unrated
C1_Witness ==
    /\ ret.op = "read"
    /\ WrittenFile
    /\ origin.games = <<GameB, GameA>>
    /\ ret.games = <<GameB, GameA>>
    /\ ret.games[2].rating = -1

\* C2: a written file with at least one record verifies OK, and with any
\* single byte of its record payload changed it verifies HASH_MISMATCH.
C2_TamperDetected ==
    /\ (WrittenFile /\ ret.op = "verify") => ret.result = "OK"
    /\ (origin.kind = "payload_tampered" /\ ret.op = "verify")
          => (/\ origin.off > SizeofHeader
              /\ origin.off <= Len(fs.bytes)
              /\ ret.result = "HASH_MISMATCH")

\* C2: the last byte of the last record was changed and the file verified
C2_Witness ==
    /\ origin.kind = "payload_tampered"
    /\ origin.off = Len(fs.bytes)
    /\ ret.op = "verify"
    /\ ret.result = "HASH_MISMATCH"

\* C3: an import whose verification is not OK returns false, hands no record
\* to addGame and leaves in last_error_ the text of getVerificationErrorText
\* for the outcome; addGame is called only after an OK.
C3_ImportGate ==
    (ret.op = "import" /\ ret.result # "OK")
        => (/\ ret.result \in FileVerificationResult
            /\ ~ret.ok
            /\ ret.games = <<>>
            /\ last_error_ = getVerificationErrorText(ret.result))

\* C3: an import stopped by a hash mismatch
C3_Witness ==
    /\ ret.op = "import"
    /\ origin.kind = "bad_hash"
    /\ ret.result = "HASH_MISMATCH"
    /\ ~ret.ok
    /\ last_error_ = "File is damaged or modified (checksum mismatch)"

\* C4: a file that holds a full header whose magic is not FILE_MAGIC
\* verifies INVALID_MAGIC, whatever else it holds.
C4_MagicFirst ==
    (/\ ret.op = "verify"
     /\ fs.exists
     /\ Len(fs.bytes) >= SizeofHeader
     /\ SubSeq(fs.bytes, 1, 4) # Le32(FILE_MAGIC))
        => ret.result = "INVALID_MAGIC"

\* C4: wrong magic, wrong version and wrong hash at once
C4_Witness ==
    /\ ret.op = "verify"
    /\ origin.kind = "not_temporium"
    /\ Uint16Of(SubSeq(fs.bytes, OffVersion, OffVersion + 1)) \notin {FILE_VERSION, LEGACY_VERSION}
    /\ ret.result = "INVALID_MAGIC"

\* C5: every record an import of a verified file hands to addGame has the
\* importing user's user_id and id 0, whatever the file stores.
C5_Rehomed ==
    (ret.op = "import" /\ ret.result = "OK")
        => \A i \in 1..Len(ret.games) :
              ret.games[i].user_id = ret.owner /\ ret.games[i].id = 0

\* C5: user 5 imported records stored with other ids and owners
C5_Witness ==
    /\ ret.op = "import"
    /\ ret.result = "OK"
    /\ ret.owner = 5
    /\ origin.games = <<GameD, GameA>>
    /\ Len(ret.games) = 2
    /\ \A i \in 1..2 : origin.games[i].user_id # 5 /\ origin.games[i].id # 0

\* C6: the write of a record whose name is longer than SIZEOF_NAME - 1
\* bytes returns true and sets no error, and the record is read back with
\* the first SIZEOF_NAME - 1 bytes of the name.
C6_Truncation ==
    /\ (ret.op = "write" /\ \E i \in 1..Len(ret.games) : Len(ret.games[i].name) >= SIZEOF_NAME)
          => (ret.ok /\ ~ret.signal)
    /\ (ret.op = "read" /\ WrittenFile)
          => (/\ Len(ret.games) = Len(origin.games)
              /\ \A i \in 1..Len(origin.games) :
                    Len(origin.games[i].name) >= SIZEOF_NAME
                        => ret.games[i].name = SubSeq(origin.games[i].name, 1, SIZEOF_NAME - 1))

\* C6: a name of 300 bytes read back as its first 255
C6_Witness ==
    /\ ret.op = "read"
    /\ WrittenFile
    /\ origin.games = <<GameD>>
    /\ Len(origin.games[1].name) = 300
    /\ Len(ret.games[1].name) = 255
    /\ ret.games[1].name = Wide(255)

\* "e3b0c44298fc1c149afbf4c8996fb92427ae41e4649b934ca495991b7852b855"
HexDigestOfEmpty ==
    << 101, 51, 98, 48, 99, 52, 52, 50, 57, 56, 102, 99, 49, 99, 49, 52,
       57, 97, 102, 98, 102, 52, 99, 56, 57, 57, 54, 102, 98, 57, 50, 52,
       50, 55, 97, 101, 52, 49, 101, 52, 54, 52, 57, 98, 57, 51, 52, 99,
       97, 52, 57, 53, 57, 57, 49, 98, 55, 56, 53, 50, 98, 56, 53, 53 >>

\* C7: the write of an empty list returns true and leaves a file that is the
\* header alone, with record_count 0 and the hex digest of the empty byte
\* string in the hash slot; the file verifies OK.
C7_EmptySet ==
    (WrittenFile /\ origin.games = <<>>)
        => (/\ fs.exists
            /\ Len(fs.bytes) = SizeofHeader
            /\ SubSeq(fs.bytes, OffRecordCount, OffRecordCount + 3) = <<0, 0, 0, 0>>
            /\ SubSeq(fs.bytes, OffHash, OffHash + SIZEOF_HASH - 1) = HexDigestOfEmpty
            /\ (ret.op = "write" => ret.ok)
            /\ (ret.op = "verify" => ret.result = "OK"))

\* C7: the file of an empty list, verified
C7_Witness ==
    /\ WrittenFile
    /\ origin.games = <<>>
    /\ Len(fs.bytes) = 100
    /\ ret.op = "verify"
    /\ ret.result = "OK"

\* what a text field of capacity cap stores of s
Stored(s, cap) == SubSeq(s, 1, Min(Len(s), cap - 1))

\* what a legacy record stores of a record: the fields id .. user_id
LegacyView(game) ==
    [Game EXCEPT
        !.id = game.id, !.name = Stored(game.name, SIZEOF_NAME),
        !.disk_space = game.disk_space, !.ram_usage = game.ram_usage,
        !.vram_required = game.vram_required, !.genre = Stored(game.genre, SIZEOF_GENRE),
        !.completed = game.completed, !.url = Stored(game.url, SIZEOF_URL),
        !.user_id = game.user_id]

\* C8: a file of the legacy version, with legacy records and the digest of
\* those records in its hash slot, verifies OK, and readBinaryFile and
\* importFromBinaryFile decode each of its records with the value the file
\* stores in every field.
C8_LegacyAccepted ==
    origin.kind \in {"legacy", "legacy_three"}
        => (/\ ret.op = "verify" => ret.result = "OK"
            /\ ret.op = "read"
                  => ret.games = [i \in 1..Len(origin.games) |-> LegacyView(origin.games[i])]
            /\ ret.op = "import"
                  => (/\ ret.ok
                      /\ ret.games = [i \in 1..Len(origin.games) |->
                                         [LegacyView(origin.games[i])
                                             EXCEPT !.id = 0, !.user_id = ret.owner]]))

C10_OneOutcome ==
    ret.op = "verify" => (~ret.escaped /\ ret.result \in FileVerificationResult)

\* C10: the record vector of a file announcing 2^32 - 1 records could not
\* be allocated
C10_Witness ==
    /\ ret.op = "verify"
    /\ origin.kind = "huge_count"
    /\ last_error_ = "Verification error: std::bad_alloc"
    /\ ret.result = "READ_ERROR"
    /\ ~ret.escaped

\* the file holds a full header with the magic FILE_MAGIC
FullHeaderWithMagic ==
    /\ fs.exists
    /\ Len(fs.bytes) >= SizeofHeader
    /\ SubSeq(fs.bytes, 1, 4) = Le32(FILE_MAGIC)

\* the version field of the file's header
HeaderVersion == Uint16Of(SubSeq(fs.bytes, OffVersion, OffVersion + 1))

AnnouncesMoreThanHeld ==
    LET cnt == SubSeq(fs.bytes, OffRecordCount, OffRecordCount + 3)
        held == (Len(fs.bytes) - SizeofHeader) \div SizeofRecord
    IN  cnt[4] >= 128 \/ Int32Of(cnt) > held

\* C12: verifyBinaryFile returns READ_ERROR for an existing file shorter
\* than a header, the empty file included, and for a file with the right
\* magic and an accepted version whose payload is shorter than record_count
\* records.
C12_ShortReads ==
    (ret.op = "verify" /\ fs.exists)
        => (/\ Len(fs.bytes) < SizeofHeader => ret.result = "READ_ERROR"
            /\ (/\ FullHeaderWithMagic
                /\ HeaderVersion \in {FILE_VERSION, LEGACY_VERSION}
                /\ AnnouncesMoreThanHeld)
                  => ret.result = "READ_ERROR")

\* C12: a file that ends in the middle of its only record
C12_Witness ==
    /\ ret.op = "verify"
    /\ origin.kind = "partial_record"
    /\ Len(fs.bytes) = 1100
    /\ ret.result = "READ_ERROR"

\* C13: a file left by a write that succeeded is the header followed by
\* the encoded records in the order given, 100 + 2151 * n bytes in all, and
\* its header holds FILE_MAGIC, FILE_VERSION, the number of records and 26
\* zero bytes of reserved space.
C13_Layout ==
    WrittenFile
        => LET n == Len(origin.games)
           IN  /\ fs.exists
               /\ Len(fs.bytes) = 100 + 2151 * n
               /\ SubSeq(fs.bytes, 1, 4) = <<80, 77, 69, 84>>
               /\ SubSeq(fs.bytes, 5, 6) = <<3, 0>>
               /\ SubSeq(fs.bytes, 7, 10) = <<n, 0, 0, 0>>
               /\ SubSeq(fs.bytes, 75, 100) = [i \in 1..26 |-> 0]
               /\ \A i \in 1..n :
                     SubSeq(fs.bytes, 100 + 2151 * (i - 1) + 1, 100 + 2151 * i)
                        = EncodedRecord[origin.games[i]]

\* C13: a file of two different records
C13_Witness ==
    /\ WrittenFile
    /\ ret.op = "write"
    /\ ret.ok
    /\ origin.games = <<GameB, GameA>>
    /\ Len(fs.bytes) = 4402
    /\ SubSeq(fs.bytes, 101, 104) = <<255, 255, 255, 127>>
    /\ SubSeq(fs.bytes, 2252, 2255) = <<1, 0, 0, 0>>

\* C17: writeGamesToFile returns false with the last error set when the
\* path cannot be opened and when the device does not take the whole
\* header and all record bytes; it returns true only when all of them
\* were written.
C17_WriterFailuresReturned ==
    ret.op = "write"
        => (/\ ~ret.env.can_open
                  => (~ret.ok /\ last_error_ = "Cannot open file for writing: path")
            /\ (ret.env.can_open /\ ret.env.room < 100 + 2151 * Len(ret.games))
                  => (~ret.ok /\ ret.signal)
            /\ ret.ok => (fs.exists /\ Len(fs.bytes) = 100 + 2151 * Len(ret.games)))

\* C18: the file a write that succeeded leaves is the file the same write
\* leaves where there was no file before.
C18_Overwrite ==
    WrittenFile => fs = writeGamesToFile(<<>>, NoFile, "", origin.games, Unlimited).fs

\* C18: one record written over a file of two
C18_Witness ==
    /\ WrittenFile
    /\ ret.op = "write"
    /\ origin.games = <<GameA>>
    /\ origin.before = 4402
    /\ Len(fs.bytes) = 2251

\* C14: a written file with one byte of the reserved region of its header
\* changed still verifies OK and previews as the records it was written
\* from, as before the change.
C14_ReservedNotCovered ==
    /\ (WrittenFile /\ ret.op = "read") => ret.games = origin.games
    /\ origin.kind = "reserved_tampered"
          => (/\ origin.off > OffHash + SIZEOF_HASH - 1
              /\ origin.off <= SizeofHeader
              /\ fs.bytes[origin.off] # 0
              /\ ret.op = "verify" => ret.result = "OK"
              /\ ret.op = "read" => ret.games = origin.games)

\* C14: the last reserved byte was changed and the file verified
C14_Witness ==
    /\ origin.kind = "reserved_tampered"
    /\ origin.off = 100
    /\ fs.bytes[100] = 255
    /\ ret.op = "verify"
    /\ ret.result = "OK"

\* the record_count field of the file's header, below 2^31
HeaderRecordCount == Int32Of(SubSeq(fs.bytes, OffRecordCount, OffRecordCount + 3))

\* C15: of a complete file with the right magic and an unsupported version
\* or a hash slot that does not match the payload, readBinaryFile returns
\* all record_count records with the id and user_id stored, and
\* importFromBinaryFile inserts nothing; of a file with another magic
\* readBinaryFile returns no record and sets the last error.
C15_PreviewUngated ==
    /\ origin.kind \in {"version_2", "version_4", "bad_hash"}
          => (/\ FullHeaderWithMagic
              /\ ~AnnouncesMoreThanHeld
              /\ ret.op = "read"
                    => (/\ Len(ret.games) = HeaderRecordCount
                        /\ ret.games = origin.games
                        /\ ~ret.more)
              /\ ret.op = "import"
                    => (~ret.ok /\ ret.games = <<>> /\ games_table.rows = <<>>))
    /\ (/\ ret.op = "read"
        /\ fs.exists
        /\ Len(fs.bytes) >= 4
        /\ SubSeq(fs.bytes, 1, 4) # Le32(FILE_MAGIC))
          => (ret.games = <<>> /\ last_error_ = "Invalid file format")

\* C15: the record of a file whose hash slot does not match, previewed
C15_Witness ==
    /\ origin.kind = "bad_hash"
    /\ ret.op = "read"
    /\ Len(ret.games) = 1
    /\ ret.games[1].id = 1
    /\ ret.games[1].user_id = 1
    /\ ret.games[1].name = <<68, 111, 111, 109>>

\* C16: an import of a file that verifies OK calls addGame once for each of
\* the record_count records, in file order, goes on after a call that
\* failed, and returns true whatever the calls returned.
C16_InsertFailuresIgnored ==
    (ret.op = "import" /\ ret.result = "OK")
        => (/\ ret.ok
            /\ Len(ret.games) = HeaderRecordCount
            /\ Len(ret.oks) = HeaderRecordCount
            /\ Len(origin.games) = HeaderRecordCount
            /\ \A i \in 1..Len(ret.games) :
                  ret.games[i].name = Stored(origin.games[i].name, SIZEOF_NAME))

\* C16: an import of two records whose inserts both failed as duplicates
C16_Witness ==
    /\ ret.op = "import"
    /\ ret.result = "OK"
    /\ ret.ok
    /\ ret.oks = <<FALSE, FALSE>>
    /\ Len(ret.games) = 2
    /\ last_error_ = "Add game error: duplicate key"

\* C16 (second case): the first insert failed and the second one went through
C16_WitnessContinues ==
    /\ ret.op = "import"
    /\ ret.ok
    /\ ret.oks = <<FALSE, TRUE>>

\* the five extended fields of a record, as its on-disk record stores them
ExtendedStored(game) ==
    [rating |-> game.rating, is_favorite |-> game.is_favorite,
     is_installed |-> game.is_installed, notes |-> Stored(game.notes, SIZEOF_NOTES),
     tags |-> Stored(game.tags, SIZEOF_TAGS)]

\* the five extended fields of a decoded record
Extended(game) ==
    [rating |-> game.rating, is_favorite |-> game.is_favorite,
     is_installed |-> game.is_installed, notes |-> game.notes, tags |-> game.tags]

\* C19: every record an import hands to addGame is unrated, not a favourite,
\* not installed, and has empty notes and tags, whatever the file stores;
\* a preview of a written file returns the stored values of these fields.
C19_ExtendedDropped ==
    /\ ret.op = "import"
          => \A i \in 1..Len(ret.games) :
                Extended(ret.games[i]) =
                    [rating |-> -1, is_favorite |-> FALSE, is_installed |-> FALSE,
                     notes |-> <<>>, tags |-> <<>>]
    /\ (ret.op = "read" /\ WrittenFile)
          => (/\ Len(ret.games) = Len(origin.games)
              /\ \A i \in 1..Len(ret.games) :
                    Extended(ret.games[i]) = ExtendedStored(origin.games[i]))

\* C19: an imported record whose on-disk record has all five fields set
C19_Witness ==
    /\ ret.op = "import"
    /\ ret.ok
    /\ Len(ret.games) = 2
    /\ ExtendedStored(origin.games[1]) =
           [rating |-> 7, is_favorite |-> TRUE, is_installed |-> TRUE,
            notes |-> <<103, 103>>, tags |-> <<97, 44, 98>>]
    /\ ret.games[1].rating = -1
    /\ ret.games[1].notes = <<>>
    /\ Len(games_table.rows) = 2
    /\ games_table.rows[1].rating = -1

\* C20: a file holding a strict prefix of what an interrupted write of R
\* would have written (nothing, part of the header, the header alone when R
\* is not empty, the header with fewer than Len(R) complete records) never
\* verifies as OK: the verification returns READ_ERROR.
C20_CrashUnverifiable ==
    (origin.kind = "crashed" /\ ret.op = "verify")
        => (/\ Len(fs.bytes) = origin.off
            /\ origin.off < SizeofHeader + Len(origin.games) * SizeofRecord
            /\ ret.result # "OK"
            /\ ret.result = "READ_ERROR")

\* C20: the header and the first of two records reached the file
C20_Witness ==
    /\ origin.kind = "crashed"
    /\ Len(origin.games) = 2
    /\ origin.off = SizeofHeader + SizeofRecord
    /\ ret.op = "verify"
    /\ ret.result = "READ_ERROR"

\* s is a prefix of t and shorter than t
StrictPrefix(s, t) == Len(s) < Len(t) /\ s = SubSeq(t, 1, Len(s))

\* the complete file the write in progress will leave
FileAfterWrite == writeGamesToFile(<<>>, NoFile, "", inflight.games, Unlimited).fs

\* the file is neither the complete file present before the write in progress
\* nor the complete file present after it
Torn == inflight.op = "write" /\ fs # inflight.old /\ fs # FileAfterWrite

\* C21: a verifyBinaryFile or readBinaryFile call that runs between the open
\* and the close of a writeGamesToFile on the same path observes a torn
\* file: a strict prefix of the new file, which is neither the file present
\* before the write nor the one present after it; verification of it returns
\* READ_ERROR, and the preview returns the records of neither file unless
\* the prefix announces no records.
C21_TornObserved ==
    (inflight.op = "write" /\ ret.op \in {"verify", "read"})
        => (/\ Torn
            /\ StrictPrefix(fs.bytes, FileAfterWrite.bytes)
            /\ ret.op = "verify" => ret.result = "READ_ERROR"
            /\ (ret.op = "read" /\ Len(fs.bytes) >= OffRecordCount + 3
                                /\ inflight.games # <<>>)
                  => (/\ ret.games # inflight.games
                      /\ Len(ret.games) = Len(inflight.games)))

\* C21: a reader sees the new header without its records, after a file of
\* one record that verified
C21_Witness ==
    /\ inflight.op = "write"
    /\ inflight.old.exists
    /\ Len(inflight.old.bytes) = SizeofHeader + SizeofRecord
    /\ Len(inflight.games) = 2
    /\ Len(fs.bytes) = SizeofHeader
    /\ ret.op = "verify"
    /\ ret.result = "READ_ERROR"
    /\ Torn

\* the ASCII codes of the digits std::hex prints
HexDigits == (48..57) \cup (97..102)

\* the hash slot of the header of the file at the path
HashSlot == SubSeq(fs.bytes, OffHash, OffHash + SIZEOF_HASH - 1)

\* C22: the unmodified file of a successful write verifies OK, for every
\* record list, also one whose text fields were cut to their fields; the
\* hash slot holds 64 hex digits, none of them padding, and they are the hex
\* form of the digest of the payload.
C22_WriteThenVerify ==
    WrittenFile
        => (/\ Len(HashSlot) = SIZEOF_HASH
            /\ \A i \in 1..SIZEOF_HASH : HashSlot[i] \in HexDigits
            /\ HashSlot = bytesToHex(SHA256_Final(oracle, SubSeq(fs.bytes, SizeofHeader + 1,
                                                                 Len(fs.bytes))),
                                     SHA256_DIGEST_LENGTH)
            /\ ret.op = "verify" => ret.result = "OK")

\* C22: the file of two records verified OK, the first with a name longer
\* than its field, the second with notes as long as their field
C22_Witness ==
    /\ WrittenFile
    /\ Len(origin.games) = 2
    /\ Len(origin.games[1].name) > SIZEOF_NAME
    /\ Len(origin.games[2].notes) = SIZEOF_NOTES
    /\ ~TextWithin(origin.games, 1)
    /\ ret.op = "verify"
    /\ ret.result = "OK"

\* game carries what the import decodes of the on-disk record of src
ImportedFrom(game, src) ==
    /\ game.name = Stored(src.name, SIZEOF_NAME)
    /\ game.disk_space = src.disk_space
    /\ game.ram_usage = src.ram_usage
    /\ game.vram_required = src.vram_required
    /\ game.genre = Stored(src.genre, SIZEOF_GENRE)
    /\ game.completed = src.completed
    /\ game.url = Stored(src.url, SIZEOF_URL)

\* the records handed to addGame are those of the file that was verified
VerifiedRecordsHanded ==
    /\ Len(ret.games) = Len(inflight.games)
    /\ \A i \in 1..Len(ret.games) : ImportedFrom(ret.games[i], inflight.games[i])

\* C23, as stated: every record an import hands to addGame was decoded from
\* the payload whose digest matched in that import's verification, also
\* when the file is written between the two passes.
C23_VerifiedOnly ==
    (ret.op = "import" /\ ret.ok) => VerifiedRecordsHanded

\* C23, amended: the same, provided the file holds at the decode pass the
\* bytes it held at the verification pass.
C23_VerifiedWhenUnchanged ==
    (ret.op = "import" /\ ret.ok /\ fs = inflight.verified) => VerifiedRecordsHanded

\* C23: an import of a two-record file nobody wrote to between the passes
C23_Witness ==
    /\ ret.op = "import"
    /\ ret.ok
    /\ fs = inflight.verified
    /\ Len(ret.games) = 2
    /\ ret.games[1].name = GameB.name
    /\ ret.games[2].name = GameA.name
    /\ ret.oks = <<TRUE, TRUE>>

\* the number of complete on-disk records after the header of the file
CompleteRecords ==
    IF Len(fs.bytes) <= SizeofHeader THEN 0
    ELSE (Len(fs.bytes) - SizeofHeader) \div SizeofRecord

\* C24: for a file with the correct magic, readBinaryFile returns no more
\* records than the file holds complete records after its header, also when
\* record_count is larger or the file is shorter than a header.
C24_OnlyRecordsInFile ==
    (/\ ret.op = "read"
     /\ fs.exists
     /\ Len(fs.bytes) >= 4
     /\ SubSeq(fs.bytes, 1, 4) = Le32(FILE_MAGIC))
        => (Len(ret.games) <= CompleteRecords /\ ~ret.more)

\* the offset (1-based) of each text field in its record
TextOffset ==
    [name |-> OffName, genre |-> OffGenre, url |-> OffUrl, notes |-> OffNotes,
     tags |-> OffTags]

\* text is at most (capacity - 1) bytes of the slot of field f of the i-th
\* record of the file at the path, from the start of the slot
TextInSlot(text, i, f) ==
    LET slot == SizeofHeader + (i - 1) * SizeofRecord + TextOffset[f]
    IN  /\ Len(text) <= Capacity[f] - 1
        /\ text = SubSeq(fs.bytes, slot, slot + Len(text) - 1)

\* verifyBinaryFile reports OK for the file at the path
VerifiesOK == verifyBinaryFile(oracle, fs, "", TRUE).result = "OK"

\* C25: for a file that verifies OK, also one of another producer, every text
\* field of every record that readBinaryFile or importFromBinaryFile decodes
\* is at most (capacity - 1) bytes long and holds bytes of its own slot only.
C25_TextInsideField ==
    (ret.op \in {"read", "import"} /\ fs.exists /\ VerifiesOK)
        => \A i \in 1..Len(ret.games) :
              \A f \in DOMAIN Capacity : TextInSlot(ret.games[i][f], i, f)

\* C26: verifyBinaryFile returns OK only for a file that is exactly its
\* header and the record_count records the header announces: a file that
\* verified OK and had bytes appended after its last record does not.
C26_NoTrailingData ==
    (ret.op = "verify" /\ ret.result = "OK")
        => (/\ Len(fs.bytes) = SizeofHeader + HeaderRecordCount * SizeofRecord
            /\ origin.kind # "appended")

\* C27: a written file with one byte of magic, version, record_count or the
\* hash slot changed does not verify OK.
C27_HeaderTamperDetected ==
    (origin.kind = "header_tampered" /\ ret.op = "verify") => ret.result # "OK"

\* C27, without the change of the version to the legacy one: every other
\* change of one byte of magic, version, record_count or the hash slot is
\* detected.
C27_DetectedButLegacy ==
    (/\ origin.kind = "header_tampered"
     /\ ret.op = "verify"
     /\ ~(origin.off = OffVersion /\ fs.bytes[OffVersion] = LEGACY_VERSION))
        => ret.result # "OK"

\* the records of owner U in the store
RecordsOf(table, U) == {table.rows[i] : i \in {j \in 1..Len(table.rows) : table.rows[j].user_id = U}}

\* of the records of one import that decode to the same name, only the first
\* is stored: the calls for the later ones fail, and the row of that name
\* holds the first one's fields when the first one was inserted
FirstOfNameStored ==
    (ret.op = "import" /\ ret.ok)
        => \A j \in 1..Len(ret.games) :
              /\ (\E i \in 1..(j - 1) : ret.games[i].name = ret.games[j].name) => ~ret.oks[j]
              /\ ret.oks[j]
                    => \E row \in RecordsOf(games_table, ret.owner) :
                          row = [ret.games[j] EXCEPT !.id = row.id]
              /\ Cardinality({row \in RecordsOf(games_table, ret.owner) :
                                 row.name = ret.games[j].name}) <= 1

\* C28: an import by U of the unmodified file that U's previous import took
\* returns true again and leaves U's records as they were; within one import
\* only the first of the records that decode to the same name is stored.
C28_ImportIdempotent ==
    [][/\ (/\ ret.op = "import" /\ ret.ok
           /\ ret'.op = "import" /\ ret'.owner = ret.owner
           /\ fs' = fs)
             => (/\ ret'.ok
                 /\ \A j \in 1..Len(ret'.oks) : ~ret'.oks[j]
                 /\ RecordsOf(games_table', ret.owner) = RecordsOf(games_table, ret.owner))
       /\ FirstOfNameStored']_vars

\* C28: the second import of a file of two records that decode to one name
C28_Witness ==
    /\ ret.op = "import"
    /\ ret.ok
    /\ Len(ret.games) = 2
    /\ ret.games[1].name = ret.games[2].name
    /\ ret.games[1].disk_space # ret.games[2].disk_space
    /\ ret.oks = <<FALSE, FALSE>>
    /\ Cardinality(RecordsOf(games_table, ret.owner)) = 1
    /\ games_table.id_seq = 4

\* the user with this id authenticates under their name with password
Authenticates(table, id, password) ==
    \E i \in 1..Len(table.rows) :
        /\ table.rows[i].id = id
        /\ authenticateUser(table, table.rows[i].username,
                            hashPassword(oracle, password, table.rows[i].username)).id = id

\* C29: after a successful changeUsername(id, new_username, p) the user
\* authenticates under new_username with the password that authenticated
\* them before the call, whatever p is.
C29_RenameKeepsPassword ==
    [][(ret'.op = "changeUsername" /\ ret'.ok)
          => \A password \in Passwords :
                Authenticates(users_table, ret'.owner, password)
                    => Authenticates(users_table', ret'.owner, password)]_vars

====
